---- MODULE Spec2Model ----
(***************************************************************************)
(* Model of the public CV analysis core of petrolink-api: the quota ledger *)
(* (checkAndConsumePublicQuota, in its source variants) and the analysis   *)
(* orchestrator (analyzePublicCvText over deepseekAnalyzeCvText).          *)
(*                                                                         *)
(* A text or an email is a sequence of one-character strings.  Time is     *)
(* counted in ticks, TicksPerDay ticks to a calendar day.                  *)
(***************************************************************************)
EXTENDS Integers, Sequences, FiniteSets, TLC

\* ------------------------------------------------------------------ bounds
TicksPerDay == 2
MaxCalls == 4
MaxProcs == 2
\* longest text handed to normalizeText, and variations made of a text
MaxTextLen == 5
MaxVary == 1
\* the clock runs until an entry made at time 0 is more than a day old
MaxNow == TicksPerDay + 1
\* nested calls of analyzeProfileAI the stack holds before RangeError
MaxStack == 3

\* ------------------------------------------------------- program constants
\* maxFree = 3 is the default parameter and the value every route passes
DefaultMaxFree == 3
\* if (!e.includes("@") || e.length < 6) return null
MinEmailLen == 6
\* if (now - rec.lastUse > 7 * dayInMs) quotaMemory.delete(key)
RetentionDays == 7

\* where the retention horizon is followed, the clock runs until an entry
\* made before MaxNow is older than the horizon
MaxClock == MaxNow + RetentionDays * TicksPerDay

\* --------------------------------------------------------- string helpers
Blank == {" ", "\t"}
WhiteSpace == {" ", "\t", "\n", "\r"}

RECURSIVE ReplaceCRLF(_)
\* .replace(/\r\n/g, "\n")
ReplaceCRLF(s) ==
  IF s = <<>> THEN <<>>
  ELSE IF Len(s) >= 2 /\ s[1] = "\r" /\ s[2] = "\n"
       THEN <<"\n">> \o ReplaceCRLF(SubSeq(s, 3, Len(s)))
       ELSE <<s[1]>> \o ReplaceCRLF(Tail(s))

RECURSIVE DropRun(_, _)
\* s without its longest prefix of characters of set cs
DropRun(s, cs) ==
  IF s # <<>> /\ s[1] \in cs THEN DropRun(Tail(s), cs) ELSE s

RECURSIVE CollapseBlanks(_)
\* .replace(/[ \t]+/g, " ")
CollapseBlanks(s) ==
  IF s = <<>> THEN <<>>
  ELSE IF s[1] \in Blank
       THEN <<" ">> \o CollapseBlanks(DropRun(s, Blank))
       ELSE <<s[1]>> \o CollapseBlanks(Tail(s))

RECURSIVE CollapseNewlines(_)
\* .replace(/\n{3,}/g, "\n\n")
CollapseNewlines(s) ==
  IF s = <<>> THEN <<>>
  ELSE IF s[1] = "\n"
       THEN LET rest == DropRun(s, {"\n"})
                run  == Len(s) - Len(rest)
            IN  (IF run >= 3 THEN <<"\n", "\n">> ELSE SubSeq(s, 1, run))
                \o CollapseNewlines(rest)
       ELSE <<s[1]>> \o CollapseNewlines(Tail(s))

RECURSIVE Reverse(_)
Reverse(s) == IF s = <<>> THEN <<>> ELSE Reverse(Tail(s)) \o <<s[1]>>

\* String.prototype.trim()
Trim(s) == Reverse(DropRun(Reverse(DropRun(s, WhiteSpace)), WhiteSpace))

LowerChar(c) ==
  CASE c = "A" -> "a" [] c = "B" -> "b" [] c = "R" -> "r" [] c = "Y" -> "y"
    [] c = "D" -> "d" [] c = "E" -> "e" [] c = "G" -> "g" [] c = "H" -> "h"
    [] c = "O" -> "o" [] c = "S" -> "s"
    [] OTHER -> c

\* String.prototype.toLowerCase()
ToLowerCase(s) == [i \in 1..Len(s) |-> LowerChar(s[i])]

Includes(s, c) == \E i \in 1..Len(s) : s[i] = c

\* ------------------------------------------------ helpers of the service
\* normalizeText without its first replace
normalizeText_noCRLF(t) == Trim(CollapseNewlines(CollapseBlanks(t)))

normalizeText(t) == Trim(CollapseNewlines(CollapseBlanks(ReplaceCRLF(t))))

\* the hex digest of a text: deterministic, and distinct for distinct texts
sha256(text) == <<"#">> \o text

\* cvHash.substring(0, 12): a prefix of the digest, distinct on the corpus
shortHashOf(h) == h

\* null (and the absent or empty email) is the empty sequence
null == <<>>

normalizeEmail(email) ==
  IF email = <<>> THEN null
  ELSE LET e == Trim(ToLowerCase(email))
       IN  IF ~Includes(e, "@") \/ Len(e) < MinEmailLen THEN null ELSE e

anon == <<"a", "n", "o", "n">>

\* ------------------------------------------------------------- the inputs
TextA    == <<"c", "v", " ", "a">>
TextAws  == <<" ", "c", "v", " ", "\t", "a", "\r", "\n">>
TextB    == <<"c", "v", " ", "b">>
RawTexts == {TextA, TextAws, TextB}

EmailA    == <<"a", "@", "x", ".", "i", "o">>
EmailAup  == <<" ", "A", "@", "x", ".", "i", "o">>
EmailB    == <<"b", "@", "x", ".", "i", "o">>
EmailBad  == <<"b", "a", "d">>
RawEmails == {<<>>, EmailA, EmailAup, EmailB, EmailBad}

\* the submissions of one run: one or two texts, one or two emails
Scenarios ==
  { [texts |-> {TextA, TextAws}, emails |-> {EmailA, EmailAup}],
    [texts |-> {TextA},          emails |-> {EmailA, EmailB}],
    [texts |-> {TextA, TextB},   emails |-> {EmailA}],
    [texts |-> {TextA},          emails |-> {<<>>, EmailA}],
    [texts |-> {TextA},          emails |-> {<<>>, EmailBad}] }

\* the values of maxFree: none, one, and the default
MaxFrees == {0, 1, DefaultMaxFree}

\* the identity of section 3: the validated email, or the anonymous marker
IdentityOf(email) ==
  IF normalizeEmail(email) = null THEN anon ELSE normalizeEmail(email)

Contents   == {normalizeText(t) : t \in RawTexts}
Identities == {IdentityOf(e) : e \in RawEmails}

\* new Date().toISOString().slice(0, 10): the calendar day of a time
dayKeyOf(t) == t \div TicksPerDay
Days == 0..dayKeyOf(MaxClock)

\* QuotaKey of section 3: content, identity and day bucket
QuotaKeys == [content : Contents, identity : Identities, day : Days]
QuotaKeyOf(cvText, email, t) ==
  [content |-> normalizeText(cvText), identity |-> IdentityOf(email),
   day |-> dayKeyOf(t)]

\* ------------------------------------------------------------------ state
VARIABLES
  impl,          \* which source variant of the quota ledger is deployed
  scenario,      \* the texts and emails submitted in this run
  hasCreds,      \* SUPABASE_URL and SUPABASE_SERVICE_KEY are both set
  maxFree,       \* the maxFree argument of the calls
  now,           \* Date.now(), in ticks
  quotaMemory,   \* the module-level Map of the in-memory variants
  table,         \* the rows of public_cv_limits, by cv_hash
  procs,         \* the calls suspended at an await of the store
  ncalls,        \* calls started so far
  hist,          \* per QuotaKey: calls returned and calls granted
  last,          \* the last call that returned or threw
  storeFailed,   \* some store operation was made to fail or raise
  aImpl,         \* which source variant of analyzePublicCvText is deployed
  dImpl,         \* which source variant of deepseekAnalyzeCvText it calls
  apiKeyLen,     \* length of DEEPSEEK_API_KEY (0: not set)
  call,          \* the last invocation of analyzePublicCvText
  remote,        \* the request to the provider that is in flight, step by step
  norm,          \* a text and what normalizeText has made of it so far
  pub,           \* the public analysis request the route handler is serving
  gate,          \* the request to a protected route, from middleware to handler
  prof,          \* the call of analyzeProfileAI in progress
  parsed,        \* a provider content and what the parse step made of it
  limiter,       \* the rateLimit middleware: its hits Map and the last request
  batch          \* the batch request and its background processing

qvars == <<impl, scenario, hasCreds, maxFree, now, quotaMemory, table, procs, ncalls,
           hist, last, storeFailed>>
avars == <<aImpl, dImpl, apiKeyLen, call>>
tvars == <<remote, norm>>
hvars == <<pub, gate, prof, parsed, limiter, batch>>
vars == <<qvars, avars, tvars, hvars>>

\* no request is being served
HIdle ==
  /\ pub = [pc |-> "idle"] /\ gate = [pc |-> "idle"] /\ prof = [pc |-> "idle"]
  /\ parsed = [pc |-> "idle"] /\ limiter = [pc |-> "idle"] /\ batch = [pc |-> "idle"]

QuotaImpls == {"supabase", "supabaseStrict", "memDay", "memHash", "stateless"}
Procs == 1..MaxProcs
StoreOutcomes == {"ok", "error", "raise"}

\* a finite map as a function: Map.get, Map.set, Map.delete
MapHas(m, k) == k \in DOMAIN m
MapSet(m, k, v) == [x \in (DOMAIN m) \cup {k} |-> IF x = k THEN v ELSE m[x]]
MapDelete(m, ks) == [x \in (DOMAIN m) \ ks |-> m[x]]
EmptyMap == [x \in {} |-> 0]

Max(a, b) == IF a >= b THEN a ELSE b
Min(a, b) == IF a <= b THEN a ELSE b

\* count, creation time and last-seen time of a stored record (-1: none)
NoSnap == <<-1, -1, -1>>
NoKey == [content |-> <<>>, identity |-> <<>>, day |-> -1]
Idle == [pc |-> "idle", qk |-> NoKey, cv_hash |-> <<>>, emailNorm |-> <<>>,
         count |-> -1, email |-> <<>>, pre |-> NoSnap]

QInit ==
  /\ impl \in QuotaImpls
  /\ hasCreds \in (IF impl = "supabase" THEN BOOLEAN ELSE {TRUE})
  /\ scenario \in Scenarios
  /\ maxFree \in MaxFrees
  /\ now = 0
  /\ quotaMemory = EmptyMap
  /\ table = EmptyMap
  /\ procs = [p \in Procs |-> Idle]
  /\ ncalls = 0
  /\ hist = [k \in QuotaKeys |-> [calls |-> 0, grants |-> 0]]
  /\ last = [called |-> FALSE, qk |-> NoKey, allowed |-> FALSE,
             remaining |-> 0, threw |-> FALSE, pre |-> NoSnap, post |-> NoSnap]
  /\ storeFailed = FALSE
  /\ aImpl = "none" /\ dImpl = "none" /\ apiKeyLen = 0
  /\ call = [called |-> FALSE]
  /\ remote = [pc |-> "idle"]
  /\ norm = [applied |-> 0]
  /\ HIdle

\* the call on QuotaKey qk ends: it returns {allowed, remaining} or throws
Returns(qk, allowed, remaining, threw, pre, post) ==
  /\ last' = [called |-> TRUE, qk |-> qk, allowed |-> allowed,
              remaining |-> remaining, threw |-> threw,
              pre |-> pre, post |-> post]
  /\ hist' = [hist EXCEPT ![qk] =
                [calls |-> @.calls + 1,
                 grants |-> @.grants + (IF allowed THEN 1 ELSE 0)]]

CanStart == ncalls < MaxCalls

\* the remaining allowance computed from the count before the increment
RemainingOf_beforeIncrement(mf, count) == Max(0, mf - (count - 1))

\* Math.max(0, maxFree - count)
RemainingOf(mf, count) == Max(0, mf - count)

\* ------------------------------------------- in-memory, key dayKey:identity
memDayIdentity(email) ==
  IF email # <<>> /\ ToLowerCase(Trim(email)) # <<>>
  THEN ToLowerCase(Trim(email)) ELSE anon

memDaySnap(m, key) == IF MapHas(m, key) THEN <<m[key].count, -1, -1>> ELSE NoSnap

checkAndConsumePublicQuota_memDay(cvText, email) ==
  /\ impl = "memDay"
  /\ CanStart
  /\ LET key   == [dayKey |-> dayKeyOf(now), identity |-> memDayIdentity(email)]
         entry == IF MapHas(quotaMemory, key) THEN quotaMemory[key]
                  ELSE [count |-> 0]
         qk    == QuotaKeyOf(cvText, email, now)
     IN  IF entry.count >= maxFree
         THEN /\ UNCHANGED quotaMemory
              /\ Returns(qk, FALSE, 0, FALSE, memDaySnap(quotaMemory, key),
                         memDaySnap(quotaMemory, key))
         ELSE /\ quotaMemory' = MapSet(quotaMemory, key, [count |-> entry.count + 1])
              /\ Returns(qk, TRUE, RemainingOf(maxFree, entry.count + 1), FALSE,
                         memDaySnap(quotaMemory, key),
                         memDaySnap(quotaMemory', key))
  /\ ncalls' = ncalls + 1
  /\ UNCHANGED <<impl, scenario, hasCreds, maxFree, now, table, procs, storeFailed>>
  /\ UNCHANGED <<avars, tvars, hvars>>

\* ------------------------------------------ in-memory, key shortHash:email
dayInMs == TicksPerDay

memHashSnap(m, key) ==
  IF MapHas(m, key) THEN <<m[key].count, m[key].firstUse, m[key].lastUse>>
  ELSE NoSnap

checkAndConsumePublicQuota_memHash(cvText, email) ==
  /\ impl = "memHash"
  /\ CanStart
  /\ LET shortHash == shortHashOf(sha256(normalizeText(cvText)))
         emailNorm == normalizeEmail(email)
         quotaKey  == IF emailNorm # null THEN shortHash \o <<":">> \o emailNorm
                      ELSE shortHash
         fresh     == \/ ~MapHas(quotaMemory, quotaKey)
                      \/ (now - quotaMemory[quotaKey].firstUse) > dayInMs
         record    == IF fresh
                      THEN [cvHash |-> shortHash, email |-> emailNorm, count |-> 1,
                            firstUse |-> now, lastUse |-> now]
                      ELSE [quotaMemory[quotaKey] EXCEPT !.count = @ + 1,
                                                         !.lastUse = now]
         stored    == MapSet(quotaMemory, quotaKey, record)
         old       == {k \in DOMAIN stored :
                         now - stored[k].lastUse > RetentionDays * dayInMs}
     IN  /\ quotaMemory' = MapDelete(stored, old)
         /\ Returns(QuotaKeyOf(cvText, email, now), record.count <= maxFree,
                    RemainingOf(maxFree, record.count), FALSE,
                    memHashSnap(quotaMemory, quotaKey),
                    memHashSnap(quotaMemory', quotaKey))
  /\ ncalls' = ncalls + 1
  /\ UNCHANGED <<impl, scenario, hasCreds, maxFree, now, table, procs, storeFailed>>
  /\ UNCHANGED <<avars, tvars, hvars>>

\* ------------------------------------------------ stateless (always allows)
checkAndConsumePublicQuota_stateless(cvText, email) ==
  /\ impl = "stateless"
  /\ CanStart
  /\ Returns(QuotaKeyOf(cvText, email, now), TRUE, maxFree - 1, FALSE, NoSnap, NoSnap)
  /\ ncalls' = ncalls + 1
  /\ UNCHANGED <<impl, scenario, hasCreds, maxFree, now, quotaMemory, table, procs,
                 storeFailed>>
  /\ UNCHANGED <<avars, tvars, hvars>>

\* the clock advances
Tick ==
  /\ now < MaxNow
  /\ now' = now + 1
  /\ UNCHANGED <<impl, scenario, hasCreds, maxFree, quotaMemory, table, procs, ncalls,
                 hist, last, storeFailed>>
  /\ UNCHANGED <<avars, tvars, hvars>>

\* ------------------------------------------ Supabase table public_cv_limits
\* analysis_count and last_analysis of the row of cv_hash (no creation time)
rowSnap(t, h) ==
  IF MapHas(t, h) THEN <<t[h].analysis_count, -1, t[h].last_analysis>> ELSE NoSnap

\* a new call takes the first free slot
FreeSlot(p) == procs[p].pc = "idle" /\ \A q \in 1..(p - 1) : procs[q].pc # "idle"

\* no call is suspended at an await
NoneSuspended == \A q \in Procs : procs[q].pc = "idle"

\* the call of p is suspended after its select returned row `existing`
Selected(p, qk, cv_hash, emailNorm) ==
  [pc |-> "selected", qk |-> qk, cv_hash |-> cv_hash, emailNorm |-> emailNorm,
   count |-> IF MapHas(table, cv_hash) THEN table[cv_hash].analysis_count ELSE -1,
   email |-> IF MapHas(table, cv_hash) THEN table[cv_hash].email ELSE <<>>,
   pre |-> rowSnap(table, cv_hash)]

\* the email of the row after the update, always the one submitted
PatchedEmail_overwrite(existingEmail, emailNorm, stored) ==
  IF emailNorm # null THEN emailNorm ELSE stored

\* if (!existing.email && emailNorm) patch.email = emailNorm: the update sets
\* the email only when the row that was read had none; otherwise the column
\* keeps what is stored
PatchedEmail(existingEmail, emailNorm, stored) ==
  IF existingEmail = <<>> /\ emailNorm # null THEN emailNorm ELSE stored

\* insert fails on a cv_hash that already has a row (one row per cv_hash)
InsertOutcome(h, out) == IF out = "ok" /\ MapHas(table, h) THEN "error" ELSE out

\* ---------------------- Supabase with fallbacks: from the call to the select
checkAndConsumePublicQuota_select(p, cvText, email, sel) ==
  /\ impl = "supabase"
  /\ FreeSlot(p)
  /\ CanStart
  /\ LET cv_hash   == sha256(normalizeText(cvText))
         emailNorm == normalizeEmail(email)
         qk        == QuotaKeyOf(cvText, email, now)
         snap      == rowSnap(table, cv_hash)
     IN  IF ~hasCreds
         THEN /\ sel = "ok"
              /\ Returns(qk, TRUE, maxFree - 1, FALSE, snap, snap)
              /\ UNCHANGED <<procs, storeFailed>>
         ELSE IF sel # "ok"
         THEN /\ Returns(qk, TRUE, maxFree - 1, FALSE, snap, snap)
              /\ storeFailed' = TRUE
              /\ UNCHANGED procs
         ELSE IF MapHas(table, cv_hash) /\ table[cv_hash].analysis_count >= maxFree
         THEN /\ Returns(qk, FALSE, 0, FALSE, snap, snap)
              /\ UNCHANGED <<procs, storeFailed>>
         ELSE /\ procs' = [procs EXCEPT ![p] = Selected(p, qk, cv_hash, emailNorm)]
              /\ UNCHANGED <<last, hist, storeFailed>>
  /\ ncalls' = ncalls + 1
  /\ UNCHANGED <<impl, scenario, hasCreds, maxFree, now, quotaMemory, table>>
  /\ UNCHANGED <<avars, tvars, hvars>>

\* ------------------- Supabase with fallbacks: the insert or the update
checkAndConsumePublicQuota_write(p, out) ==
  /\ impl = "supabase"
  /\ procs[p].pc = "selected"
  /\ LET me        == procs[p]
         h         == me.cv_hash
         nextCount == me.count + 1
     IN  IF me.count = -1
         THEN LET res == InsertOutcome(h, out)
              IN  IF res = "ok"
                  THEN /\ table' = MapSet(table, h,
                                     [analysis_count |-> 1, email |-> me.emailNorm,
                                      last_analysis |-> now])
                       /\ Returns(me.qk, TRUE, Max(0, maxFree - 1), FALSE,
                                  me.pre, rowSnap(table', h))
                       /\ UNCHANGED storeFailed
                  ELSE /\ UNCHANGED table
                       /\ Returns(me.qk, TRUE, maxFree - 1, FALSE,
                                  me.pre, rowSnap(table, h))
                       /\ storeFailed' = (storeFailed \/ out # "ok")
         ELSE IF out = "ok"
              THEN /\ table' = [table EXCEPT ![h] =
                                 [analysis_count |-> nextCount,
                                  email |-> PatchedEmail(me.email, me.emailNorm, @.email),
                                  last_analysis |-> now]]
                   /\ Returns(me.qk, TRUE, Max(0, maxFree - nextCount), FALSE,
                              me.pre, rowSnap(table', h))
                   /\ UNCHANGED storeFailed
              ELSE /\ UNCHANGED table
                   /\ Returns(me.qk, TRUE,
                              IF out = "error" THEN Max(0, maxFree - nextCount)
                              ELSE maxFree - 1,
                              FALSE, me.pre, rowSnap(table, h))
                   /\ storeFailed' = TRUE
  /\ procs' = [procs EXCEPT ![p] = Idle]
  /\ UNCHANGED <<impl, scenario, hasCreds, maxFree, now, quotaMemory, ncalls>>
  /\ UNCHANGED <<avars, tvars, hvars>>

\* ------------------------ Supabase, errors thrown: from the call to the select
checkAndConsumePublicQuota_strictSelect(p, cvText, email, sel) ==
  /\ impl = "supabaseStrict"
  /\ FreeSlot(p)
  /\ CanStart
  /\ LET cv_hash   == sha256(normalizeText(cvText))
         emailNorm == normalizeEmail(email)
         qk        == QuotaKeyOf(cvText, email, now)
         snap      == rowSnap(table, cv_hash)
     IN  IF sel # "ok"
         THEN /\ Returns(qk, FALSE, 0, TRUE, snap, snap)
              /\ storeFailed' = TRUE
              /\ UNCHANGED procs
         ELSE IF MapHas(table, cv_hash) /\ table[cv_hash].analysis_count >= maxFree
         THEN /\ Returns(qk, FALSE, 0, FALSE, snap, snap)
              /\ UNCHANGED <<procs, storeFailed>>
         ELSE /\ procs' = [procs EXCEPT ![p] = Selected(p, qk, cv_hash, emailNorm)]
              /\ UNCHANGED <<last, hist, storeFailed>>
  /\ ncalls' = ncalls + 1
  /\ UNCHANGED <<impl, scenario, hasCreds, maxFree, now, quotaMemory, table>>
  /\ UNCHANGED <<avars, tvars, hvars>>

\* ---------------------- Supabase, errors thrown: the insert or the update
checkAndConsumePublicQuota_strictWrite(p, out) ==
  /\ impl = "supabaseStrict"
  /\ procs[p].pc = "selected"
  /\ LET me        == procs[p]
         h         == me.cv_hash
         nextCount == me.count + 1
         res       == IF me.count = -1 THEN InsertOutcome(h, out) ELSE out
     IN  IF res # "ok"
         THEN /\ UNCHANGED table
              /\ Returns(me.qk, FALSE, 0, TRUE, me.pre, rowSnap(table, h))
              /\ storeFailed' = (storeFailed \/ out # "ok")
         ELSE /\ table' = MapSet(table, h,
                    IF me.count = -1
                    THEN [analysis_count |-> 1, email |-> me.emailNorm,
                          last_analysis |-> now]
                    ELSE [analysis_count |-> nextCount,
                          email |-> PatchedEmail(me.email, me.emailNorm, table[h].email),
                          last_analysis |-> now])
              /\ Returns(me.qk, TRUE,
                         Max(0, maxFree - (IF me.count = -1 THEN 1 ELSE nextCount)),
                         FALSE, me.pre, rowSnap(table', h))
              /\ UNCHANGED storeFailed
  /\ procs' = [procs EXCEPT ![p] = Idle]
  /\ UNCHANGED <<impl, scenario, hasCreds, maxFree, now, quotaMemory, ncalls>>
  /\ UNCHANGED <<avars, tvars, hvars>>

\* calls made one after another: a call starts when none is suspended
QNext ==
  \/ \E t \in scenario.texts, e \in scenario.emails : checkAndConsumePublicQuota_memDay(t, e)
  \/ \E t \in scenario.texts, e \in scenario.emails : checkAndConsumePublicQuota_memHash(t, e)
  \/ \E t \in scenario.texts, e \in scenario.emails : checkAndConsumePublicQuota_stateless(t, e)
  \/ \E p \in Procs, t \in scenario.texts, e \in scenario.emails, sel \in StoreOutcomes :
       NoneSuspended /\ checkAndConsumePublicQuota_select(p, t, e, sel)
  \/ \E p \in Procs, out \in StoreOutcomes : checkAndConsumePublicQuota_write(p, out)
  \/ \E p \in Procs, t \in scenario.texts, e \in scenario.emails, sel \in StoreOutcomes :
       NoneSuspended /\ checkAndConsumePublicQuota_strictSelect(p, t, e, sel)
  \/ \E p \in Procs, out \in StoreOutcomes :
       checkAndConsumePublicQuota_strictWrite(p, out)
  \/ Tick

Spec == QInit /\ [][QNext]_vars

\* concurrent calls of the Supabase variants: a call may start while others
\* are suspended between their select and their insert or update
ConcInit == QInit /\ impl \in {"supabase", "supabaseStrict"}

ConcNext ==
  \/ \E p \in Procs, t \in scenario.texts, e \in scenario.emails, sel \in StoreOutcomes :
       checkAndConsumePublicQuota_select(p, t, e, sel)
  \/ \E p \in Procs, out \in StoreOutcomes : checkAndConsumePublicQuota_write(p, out)
  \/ \E p \in Procs, t \in scenario.texts, e \in scenario.emails, sel \in StoreOutcomes :
       checkAndConsumePublicQuota_strictSelect(p, t, e, sel)
  \/ \E p \in Procs, out \in StoreOutcomes :
       checkAndConsumePublicQuota_strictWrite(p, out)

SpecConc == ConcInit /\ [][ConcNext]_vars

\* the in-memory ledgers over more than the retention horizon: between calls
\* time passes by a tick, or by seven days at once
WaitHorizon ==
  /\ now + RetentionDays * dayInMs <= MaxClock
  /\ now' = now + RetentionDays * dayInMs
  /\ UNCHANGED <<impl, scenario, hasCreds, maxFree, quotaMemory, table, procs, ncalls,
                 hist, last, storeFailed>>
  /\ UNCHANGED <<avars, tvars, hvars>>

RInit == QInit /\ impl \in {"memDay", "memHash"}

RNext ==
  \/ \E t \in scenario.texts, e \in scenario.emails : checkAndConsumePublicQuota_memDay(t, e)
  \/ \E t \in scenario.texts, e \in scenario.emails : checkAndConsumePublicQuota_memHash(t, e)
  \/ Tick
  \/ WaitHorizon

SpecRetention == RInit /\ [][RNext]_vars

\* ------------------------------------------------- the claims, quota ledger
\* the last call returned a result
Returned == last.called /\ ~last.threw

\* the store is configured and no operation on it was made to fail
NoFault == hasCreds /\ ~storeFailed

\* every call so far was made on the QuotaKey of the last one
OneKeyOnly == NoneSuspended /\ hist[last.qk].calls = ncalls

\* every email of the run is the same address up to case and outer blanks
OneEmail ==
  \A e1, e2 \in scenario.emails : ToLowerCase(Trim(e1)) = ToLowerCase(Trim(e2))

RECURSIVE CallsOn(_)
\* calls returned so far on the QuotaKeys of set K
CallsOn(K) ==
  IF K = {} THEN 0
  ELSE LET k == CHOOSE x \in K : TRUE IN hist[k].calls + CallsOn(K \ {k})

\* every call so far had the content and day of the last one
OnlyIdentityVaries ==
  /\ NoneSuspended
  /\ CallsOn({k \in QuotaKeys : k.content = last.qk.content /\ k.day = last.qk.day})
       = ncalls

\* every call so far had the identity and day of the last one
OnlyContentVaries ==
  /\ NoneSuspended
  /\ CallsOn({k \in QuotaKeys : k.identity = last.qk.identity /\ k.day = last.qk.day})
       = ncalls

\* every call so far had the content and identity of the last one
OnlyDayVaries ==
  /\ NoneSuspended
  /\ CallsOn({k \in QuotaKeys : k.content = last.qk.content
                                /\ k.identity = last.qk.identity}) = ncalls

\* the last call was decided by the history of its own QuotaKey alone
OwnAllowance ==
  /\ last.allowed => last.remaining = maxFree - hist[last.qk].grants
  /\ ~last.allowed => hist[last.qk].grants >= maxFree

\* C1: with the same content, identity and day bucket and maxFree = N (calls
\* made one after another, no store operation failing), at most N calls
\* return allowed=true, and a denied call returns remaining=0.
C1_AtMostNGrants ==
  (impl \in {"supabase", "memDay", "memHash"} /\ maxFree >= 1 /\ ~storeFailed
     /\ OneEmail)
  => /\ \A k \in QuotaKeys : hist[k].grants <= maxFree
     /\ (Returned /\ ~last.allowed) => last.remaining = 0

\* C2: concurrent calls for one quota key never get more than maxFree grants,
\* and 2N concurrent calls for one key get exactly N.
C2_ConcurrentGrants ==
  (NoFault /\ maxFree >= 1)
  => /\ \A k \in QuotaKeys : hist[k].grants <= maxFree
     /\ \A k \in QuotaKeys :
          (NoneSuspended /\ hist[k].calls = ncalls /\ ncalls = 2 * maxFree)
          => hist[k].grants = maxFree

\* C3: a denied call (existing record with count >= maxFree) leaves the
\* record's count, creation time and last-seen time unchanged.
C3_DeniedLeavesRecord ==
  (Returned /\ ~last.allowed /\ maxFree >= 1
     /\ last.pre # NoSnap /\ last.pre[1] >= maxFree)
  => last.post = last.pre

\* C4: in the in-memory ledgers, when every call so far was made with one
\* email on one quota key,
\* the k-th allowed call returns remaining = maxFree - k (k <= maxFree), and
\* every call after the maxFree-th returns allowed=false, remaining=0.
C4_RemainingCountsDown ==
  (impl \in {"memDay", "memHash"} /\ Returned /\ OneKeyOnly /\ OneEmail)
  => /\ last.allowed <=> ncalls <= maxFree
     /\ last.allowed => last.remaining = maxFree - ncalls
     /\ ~last.allowed => last.remaining = 0
     /\ hist[last.qk].grants = Min(ncalls, maxFree)

C4_Witness ==
  /\ impl \in {"memDay", "memHash"} /\ maxFree = 3 /\ ncalls = 4
  /\ Returned /\ OneKeyOnly /\ OneEmail
  /\ ~last.allowed /\ last.remaining = 0 /\ hist[last.qk].grants = 3

\* C5: with byte-identical text and only the identity varying, each identity
\* has its own full allowance: a call is decided by the grants made to its own
\* identity.
C5_IdentityIsolation ==
  (impl \in {"supabase", "supabaseStrict", "memHash"} /\ NoFault /\ Returned
     /\ maxFree >= 1 /\ OnlyIdentityVaries)
  => OwnAllowance

\* C6: two submissions share a quota record iff content, identity and bucket
\* agree: with one identity on one day, a call is decided by the grants made
\* to its own content.
C6_KeyIsContentIdentityDay ==
  (impl \in {"memDay", "memHash"} /\ Returned /\ maxFree >= 1 /\ OneEmail
     /\ OnlyContentVaries)
  => OwnAllowance

\* C7: the first call of a day for a content and identity returns
\* allowed=true with remaining = maxFree - 1, whatever was consumed on
\* earlier days.
C7_NewDayNewAllowance ==
  (impl \in {"supabase", "memDay", "memHash"} /\ NoFault /\ Returned
     /\ OnlyDayVaries /\ maxFree >= 1 /\ hist[last.qk].calls = 1)
  => last.allowed /\ last.remaining = maxFree - 1

\* C8: checkAndConsumePublicQuota never throws, whatever the store does.
C8_NeverThrows == last.called => ~last.threw

\* the run submits one text with no email and with an email that fails validation
AnonAndInvalid ==
  /\ Cardinality(scenario.texts) = 1
  /\ scenario.emails = {<<>>, EmailBad}
  /\ normalizeEmail(EmailBad) = null

\* C21: a submission whose email fails validation is not rejected and is
\* anonymous: in the in-memory ledgers, calls made on one day for one text
\* with no email or with the invalid email draw on one allowance, so the
\* k-th of them is allowed exactly when k <= maxFree.
C21_InvalidEmailIsAnonymous ==
  (impl \in {"memDay", "memHash"} /\ AnonAndInvalid /\ last.called /\ OneKeyOnly
     /\ maxFree >= 1)
  => /\ ~last.threw
     /\ last.allowed <=> ncalls <= maxFree
     /\ hist[last.qk].grants = Min(ncalls, maxFree)

\* the ledger runs without a store: the Supabase credentials are missing, or
\* the variant has no store at all
NoStore == (impl = "supabase" /\ ~hasCreds) \/ impl = "stateless"

\* C29: without Supabase credentials the ledger still counts in memory:
\* for repeated submissions of one content by one identity on one day the
\* remaining value goes down call by call and the call after the maxFree-th
\* is denied.
C29_NoCredentialsStillCounts ==
  (NoStore /\ Returned /\ OneKeyOnly /\ OneEmail /\ maxFree >= 1)
  => /\ last.allowed <=> ncalls <= maxFree
     /\ last.allowed => last.remaining = maxFree - ncalls

\* the latest time at which the record of key k was used: its lastUse, or the
\* end of the day of its key where the record holds no time
LastSeenAt(m, k) ==
  IF impl = "memHash" THEN m[k].lastUse ELSE (k.dayKey + 1) * TicksPerDay - 1

\* C22: after every call of checkAndConsumePublicQuota the in-memory ledger
\* holds no record last seen more than 7 days ago, and the call has removed
\* no record last seen 7 days ago or less.
C22_RetentionHorizon ==
  [][ncalls' = ncalls + 1
     => /\ \A k \in DOMAIN quotaMemory' :
             now' - LastSeenAt(quotaMemory', k) <= RetentionDays * dayInMs
        /\ \A k \in DOMAIN quotaMemory :
             now - LastSeenAt(quotaMemory, k) <= RetentionDays * dayInMs
             => k \in DOMAIN quotaMemory']_vars

\* C38: for every maxFree >= 0 and on every path a call that returns gives
\* remaining within 0..maxFree, and with maxFree = 0 it never allows.
C38_RemainingInRange ==
  Returned
  => /\ last.remaining \in 0..maxFree
     /\ last.allowed => maxFree >= 1

\* the call of p ends in this step with a write to the row of cv_hash h
Consumes(p, h) ==
  /\ procs[p].pc = "selected"
  /\ procs'[p].pc = "idle"
  /\ procs[p].cv_hash = h
  /\ table'[h] # table[h]

\* C34: on a row that exists, a call that consumes a unit adds exactly its
\* own unit to the count; it attaches its valid email when the row had none,
\* and an email that is set is never replaced by a later submission.
C34_EmailAttachedOnce ==
  [][\A h \in DOMAIN table :
       /\ table[h].email # null => table'[h].email = table[h].email
       /\ \A p \in Procs :
            Consumes(p, h)
            => /\ table'[h].analysis_count = table[h].analysis_count + 1
               /\ table[h].email = null => table'[h].email = procs[p].emailNorm]_vars

\* a row made without an email got the email of the second submission
C34_Witness ==
  /\ impl \in {"supabase", "supabaseStrict"}
  /\ ncalls = 2
  /\ NoneSuspended
  /\ LET h == sha256(normalizeText(TextA))
     IN  /\ MapHas(table, h)
         /\ table[h].analysis_count = 2
         /\ table[h].email = normalizeEmail(EmailA)
  /\ last.qk.identity = IdentityOf(EmailA)
  /\ hist[last.qk].calls = 1


\* =========================================================== the analysis
\* A CV text is its significant characters (body) preceded by pad characters
\* of filler that hold no blank, digit or keyword.
TextLen(text) == Len(text.body) + text.pad

\* s has the characters w at position i
HasAt(s, w, i) == i + Len(w) - 1 <= Len(s) /\ SubSeq(s, i, i + Len(w) - 1) = w

\* String.prototype.includes
IncludesStr(s, w) == \E i \in 1..Len(s) : HasAt(s, w, i)

Digits == <<"0", "1", "2", "3", "4", "5", "6", "7", "8", "9">>
IsDigit(c) == \E d \in 1..10 : Digits[d] = c
DigitVal(c) == (CHOOSE d \in 1..10 : Digits[d] = c) - 1

RECURSIVE ParseInt(_, _)
\* parseInt of a run of digits, most significant first
ParseInt(run, acc) ==
  IF run = <<>> THEN acc ELSE ParseInt(Tail(run), 10 * acc + DigitVal(run[1]))

\* the words the years pattern accepts after the number
YearWords == {<<"a", "ñ", "o", "s">>, <<"y", "e", "a", "r", "s">>}

RECURSIVE YearsFrom(_, _)
\* textLower.match(/(\d+)\s*(años|years)/): the number of the leftmost run of
\* digits that is followed, after optional white space, by a year word; -1
\* when there is no match
YearsFrom(s, i) ==
  IF i > Len(s) THEN -1
  ELSE IF ~IsDigit(s[i]) THEN YearsFrom(s, i + 1)
  ELSE LET rest  == SubSeq(s, i, Len(s))
           after == DropRun(rest, {Digits[d] : d \in 1..10})
           run   == SubSeq(rest, 1, Len(rest) - Len(after))
           word  == DropRun(after, WhiteSpace)
       IN  IF \E w \in YearWords : HasAt(word, w, 1)
           THEN ParseInt(run, 0)
           ELSE YearsFrom(s, i + Len(run))

\* ------------------------------------------------------------ JSON values
Fields == {"industry", "role_seniority", "top_roles", "skills", "score",
           "red_flags", "summary", "next_steps"}
AllFields == Fields \cup {"_source"}

\* a value: its typeof tag, then the string, number or array it holds; a
\* string built from a template keeps the template in s and its holes in p
Undefined == [t |-> "undefined", s |-> "", n |-> 0, a |-> <<>>, p |-> <<>>]
Str(x)    == [t |-> "string", s |-> x, n |-> 0, a |-> <<>>, p |-> <<>>]
Tpl(x, h) == [t |-> "string", s |-> x, n |-> 0, a |-> <<>>, p |-> h]
Num(x)    == [t |-> "number", s |-> "", n |-> x, a |-> <<>>, p |-> <<>>]
Arr(x)    == [t |-> "array", s |-> "", n |-> 0, a |-> x, p |-> <<>>]

\* an object literal with the eight fields
Obj8(industry, role_seniority, top_roles, skills, score, red_flags, summary, next_steps) ==
  [kind |-> "object",
   f |-> [x \in AllFields |->
            CASE x = "industry" -> industry
              [] x = "role_seniority" -> role_seniority
              [] x = "top_roles" -> top_roles
              [] x = "skills" -> skills
              [] x = "score" -> score
              [] x = "red_flags" -> red_flags
              [] x = "summary" -> summary
              [] x = "next_steps" -> next_steps
              [] OTHER -> Undefined]]

\* {} and null
EmptyObject == [kind |-> "object", f |-> [x \in AllFields |-> Undefined]]
NullValue   == [kind |-> "null", f |-> [x \in AllFields |-> Undefined]]

\* decimal form of a small number, for the holes of a template
NumStr(n) ==
  CASE n = 0 -> "0" [] n = 1 -> "1" [] n = 2 -> "2" [] n = 3 -> "3"
    [] n = 4 -> "4" [] n = 5 -> "5" [] n = 6 -> "6" [] n = 7 -> "7"
    [] n = 8 -> "8" [] n = 9 -> "9" [] n = 10 -> "10" [] n = 12 -> "12"
    [] OTHER -> "n"

\* ------------------------------------------------- the local heuristic
skillsList ==
  << [name |-> "react", chars |-> <<"r", "e", "a", "c", "t">>],
     [name |-> "node", chars |-> <<"n", "o", "d", "e">>],
     [name |-> "javascript", chars |-> <<"j", "a", "v", "a", "s", "c", "r", "i", "p", "t">>],
     [name |-> "typescript", chars |-> <<"t", "y", "p", "e", "s", "c", "r", "i", "p", "t">>],
     [name |-> "python", chars |-> <<"p", "y", "t", "h", "o", "n">>],
     [name |-> "docker", chars |-> <<"d", "o", "c", "k", "e", "r">>],
     [name |-> "aws", chars |-> <<"a", "w", "s">>],
     [name |-> "kubernetes", chars |-> <<"k", "u", "b", "e", "r", "n", "e", "t", "e", "s">>],
     [name |-> "postgresql", chars |-> <<"p", "o", "s", "t", "g", "r", "e", "s", "q", "l">>],
     [name |-> "mongodb", chars |-> <<"m", "o", "n", "g", "o", "d", "b">>] >>

RECURSIVE Detected(_, _)
\* list.filter(skill => textLower.includes(skill))
Detected(list, textLower) ==
  IF list = <<>> THEN <<>>
  ELSE (IF IncludesStr(textLower, list[1].chars) THEN <<list[1].name>> ELSE <<>>)
       \o Detected(Tail(list), textLower)

\* Math.max(5, experience), the lower clamp of the local score
ScoreFloor(experience) == Max(5, experience)

localCvAnalysis(text) ==
  LET textLower  == ToLowerCase(text.body)
      has(w)     == IncludesStr(textLower, w)
      industry   == IF has(<<"r", "e", "a", "c", "t">>) \/ has(<<"n", "o", "d", "e">>)
                       \/ has(<<"j", "a", "v", "a", "s", "c", "r", "i", "p", "t">>)
                    THEN "IT"
                    ELSE IF has(<<"o", "i", "l">>) \/ has(<<"g", "a", "s">>)
                    THEN "Energía" ELSE "General"
      yearsMatch == YearsFrom(textLower, 1)
      experience == IF yearsMatch # -1 THEN yearsMatch ELSE 3
      seniority  == IF experience >= 5 THEN "Senior"
                    ELSE IF experience <= 2 THEN "Junior" ELSE "Mid-Level"
      detectedSkills == Detected(skillsList, textLower)
  IN  Obj8(Str(industry), Str(seniority),
           Arr(<<"Desarrollador Full Stack", "Ingeniero de Software",
                 "Especialista Técnico">>),
           Arr(IF Len(detectedSkills) > 0 THEN detectedSkills
               ELSE <<"Habilidades técnicas">>),
           Num(Min(10, ScoreFloor(experience))),
           Arr(IF TextLen(text) < 50 THEN <<"CV muy breve">> ELSE <<>>),
           Tpl("Profesional con ${experience} años de experiencia en ${industry}. Análisis local.",
               <<NumStr(experience), industry>>),
           Arr(<<"Para análisis más detallado, completa tu perfil en Petrolink">>))

\* -------------------------------------------------- the provider's answer
\* net: the fetch rejects ("error"), never gets response headers ("hang"), or
\* gets them ("headers"); ok: response.ok; body: the body is JSON or not;
\* ckind: choices[0].message.content is empty, a JSON text ("json"), one JSON
\* object inside prose ("wrapped"), a JSON object followed by prose that holds
\* braces ("twoBlocks"), or prose without braces; cand: the JSON value written
CandFull ==
  Obj8(Str("Salud"), Str("Lead"), Arr(<<"Enfermera jefe">>), Arr(<<"UCI", "Triage">>),
       Num(8), Arr(<<>>), Str("Perfil sólido."), Arr(<<"Agregar métricas">>))

CandPartial ==
  [kind |-> "object",
   f |-> [x \in AllFields |->
            CASE x = "industry" -> Str("IT")
              [] x = "top_roles" -> Str("not-an-array")
              [] x = "skills" -> Arr(<<"A", "a", "B">>)
              [] x = "score" -> Num(99)
              [] OTHER -> Undefined]]

\* an object whose arrays are one longer than the shaping step lets through,
\* with an empty string in each
CandLong ==
  Obj8(Str("IT"), Str("Senior"),
       Arr(<<"r1", "", "r3", "r4", "r5", "r6">>),
       Arr(<<"s1", "s2", "s3", "s4", "s5", "s6", "s7", "s8", "s9", "s10", "s11", "s12", "s13", "s14", "s15", "s16", "s17", "s18", "s19", "s20", "s21", "s22", "s23", "s24", "s25", "s26", "s27", "s28", "s29", "s30", "s31">>),
       Num(0),
       Arr(<<"f1", "", "f3", "f4", "f5", "f6", "f7", "f8", "f9">>),
       Str("Resumen."),
       Arr(<<"n1", "", "n3", "n4", "n5", "n6", "n7">>))

\* a JSON number, string or array: property reads on it give undefined
NumberValue == [kind |-> "number", f |-> [x \in AllFields |-> Undefined]]
StringValue == [kind |-> "string", f |-> [x \in AllFields |-> Undefined]]
ArrayValue  == [kind |-> "array", f |-> [x \in AllFields |-> Undefined]]

Candidates == {CandFull, CandPartial, CandLong, EmptyObject, NullValue,
               NumberValue, StringValue, ArrayValue}

Resp(net, ok, body, ckind, cand) ==
  [net |-> net, ok |-> ok, body |-> body, ckind |-> ckind, cand |-> cand]

Responses ==
  { Resp("error", FALSE, "notjson", "empty", EmptyObject),
    Resp("hang", FALSE, "notjson", "empty", EmptyObject),
    Resp("headers", FALSE, "notjson", "empty", EmptyObject),
    Resp("headers", TRUE, "notjson", "empty", EmptyObject),
    Resp("headers", TRUE, "json", "empty", EmptyObject),
    Resp("headers", TRUE, "json", "prose", EmptyObject) }
  \cup { Resp("headers", TRUE, "json", "json", c) : c \in Candidates }
  \cup { Resp("headers", TRUE, "json", k, c) :
           k \in {"wrapped", "twoBlocks"}, c \in {CandFull, CandPartial, EmptyObject} }

\* the remote call ended in a network error, a timeout, a non-success status,
\* empty content, or content that no parse accepts
RemoteFailed(r) ==
  \/ r.net \in {"error", "hang"}
  \/ ~r.ok
  \/ r.body = "notjson"
  \/ r.ckind \in {"empty", "prose", "twoBlocks"}

\* JSON.parse(content) succeeds
StrictParses(r) == r.ckind = "json"

\* content.match(/\{[\s\S]*\}/) finds something: from the first "{" to the
\* last "}"
BraceMatch(r) == r.ckind \in {"wrapped", "twoBlocks"}

\* JSON.parse of that match succeeds: only when the match is one object
MatchParses(r) == r.ckind = "wrapped"

\* what deepseekAnalyzeCvText does: returns v, throws, or never settles;
\* req counts the requests sent to the provider
DsValue(v, req) == [st |-> "value", v |-> v, req |-> req]
DsThrow(req)    == [st |-> "throw", v |-> EmptyObject, req |-> req]
DsPending(req)  == [st |-> "pending", v |-> EmptyObject, req |-> req]

\* key.trim().length < 20
MinKeyLen == 20

\* the corrected variant uses the local analysis: the key is refused, the
\* fetch rejects or is aborted, the status is not a success, the body is not
\* JSON, the content is empty, or no parse of the content succeeds
CorrectedFails(keyLen, r) ==
  \/ keyLen < MinKeyLen
  \/ r.net \in {"error", "hang"}
  \/ ~r.ok
  \/ r.body = "notjson"
  \/ r.ckind = "empty"
  \/ ~(StrictParses(r) \/ (BraceMatch(r) /\ MatchParses(r)))

\* deepseekService.js: every failure ends in localCvAnalysis(inputText)
deepseekAnalyzeCvText_corrected(keyLen, inputText, r) ==
  DsValue(IF CorrectedFails(keyLen, r) THEN localCvAnalysis(inputText) ELSE r.cand,
          IF keyLen < MinKeyLen THEN 0 ELSE 1)

\* the first version: failures are thrown, there is no timeout
deepseekAnalyzeCvText_strict(keyLen, inputText, r) ==
  IF keyLen = 0 THEN DsThrow(0)
  ELSE IF r.net = "error" THEN DsThrow(1)
  ELSE IF r.net = "hang" THEN DsPending(1)
  ELSE IF ~r.ok THEN DsThrow(1)
  ELSE IF r.body = "notjson" THEN DsThrow(1)
  ELSE IF r.ckind = "empty" THEN DsValue(EmptyObject, 1)
  ELSE IF StrictParses(r) THEN DsValue(r.cand, 1)
  ELSE IF ~BraceMatch(r) THEN DsValue(EmptyObject, 1)
  ELSE IF MatchParses(r) THEN DsValue(r.cand, 1)
  ELSE DsThrow(1)

\* an object literal with a ninth field, _source
WithSource(obj, src) == [obj EXCEPT !.f["_source"] = Str(src)]

RECURSIVE YearsFromEmbedded(_, _)
\* textLower.match(/(\d+)\s*years?/i)
YearsFromEmbedded(s, i) ==
  IF i > Len(s) THEN -1
  ELSE IF ~IsDigit(s[i]) THEN YearsFromEmbedded(s, i + 1)
  ELSE LET rest  == SubSeq(s, i, Len(s))
           after == DropRun(rest, {Digits[d] : d \in 1..10})
           run   == SubSeq(rest, 1, Len(rest) - Len(after))
           word  == DropRun(after, WhiteSpace)
       IN  IF HasAt(word, <<"y", "e", "a", "r">>, 1)
           THEN ParseInt(run, 0)
           ELSE YearsFromEmbedded(s, i + Len(run))

embeddedSkills ==
  << [name |-> "react", chars |-> <<"r", "e", "a", "c", "t">>],
     [name |-> "node", chars |-> <<"n", "o", "d", "e">>],
     [name |-> "javascript", chars |-> <<"j", "a", "v", "a", "s", "c", "r", "i", "p", "t">>],
     [name |-> "typescript", chars |-> <<"t", "y", "p", "e", "s", "c", "r", "i", "p", "t">>],
     [name |-> "docker", chars |-> <<"d", "o", "c", "k", "e", "r">>],
     [name |-> "aws", chars |-> <<"a", "w", "s">>] >>

\* the function put in place of deepseekAnalyzeCvText when the module fails
\* to load
deepseekAnalyzeCvText_embedded(inputText) ==
  LET textLower  == ToLowerCase(inputText.body)
      has(w)     == IncludesStr(textLower, w)
      industry   == IF has(<<"r", "e", "a", "c", "t">>) \/ has(<<"n", "o", "d", "e">>)
                    THEN "IT" ELSE "General"
      yearsMatch == YearsFromEmbedded(textLower, 1)
      experience == IF yearsMatch # -1 THEN yearsMatch ELSE 3
  IN  DsValue(WithSource(
        Obj8(Str(industry),
             Str(IF experience >= 5 THEN "Senior" ELSE "Mid-Level"),
             Arr(<<"Software Developer", "Engineer">>),
             Arr(Detected(embeddedSkills, textLower)),
             Num(Min(10, experience + 3)),
             Arr(<<"Service: Embedded fallback (module load failed)">>),
             Tpl("Embedded analysis: ${experience} years experience.",
                 <<NumStr(experience)>>),
             Arr(<<"Complete profile on Petrolink">>)),
        "embedded-fallback"), 0)

deepseekAnalyzeCvText(d, keyLen, inputText, r) ==
  CASE d = "corrected" -> deepseekAnalyzeCvText_corrected(keyLen, inputText, r)
    [] d = "embedded" -> deepseekAnalyzeCvText_embedded(inputText)
    [] OTHER -> deepseekAnalyzeCvText_strict(keyLen, inputText, r)

\* ------------------------------------------------------------- the shaping
\* .slice(0, n)
Slice(a, n) == SubSeq(a, 1, Min(n, Len(a)))

\* String(s).trim() of the strings of the corpus
TrimStr(x) == IF x = " B " THEN "B" ELSE IF x = " " THEN "" ELSE x

RECURSIVE DropEmpty(_)
\* .map((s) => String(s).trim()).filter(Boolean)
DropEmpty(a) ==
  IF a = <<>> THEN <<>>
  ELSE (IF TrimStr(a[1]) = "" THEN <<>> ELSE <<TrimStr(a[1])>>) \o DropEmpty(Tail(a))

RECURSIVE SetOrder(_, _)
\* Array.from(new Set(a)): first occurrences, in order
SetOrder(a, seen) ==
  IF a = <<>> THEN <<>>
  ELSE IF a[1] \in seen THEN SetOrder(Tail(a), seen)
  ELSE <<a[1]>> \o SetOrder(Tail(a), seen \cup {a[1]})

MaxTopRoles == 5
MaxSkills == 30
MaxRedFlags == 8
MaxNextSteps == 6

ShapeString(j, default) == IF j.t = "string" THEN j ELSE Str(default)
ShapeArray(j, n, default) == IF j.t = "array" THEN Arr(Slice(j.a, n)) ELSE Arr(default)
ShapeSkills(j) ==
  IF j.t = "array" THEN Arr(Slice(SetOrder(DropEmpty(j.a), {}), MaxSkills))
  ELSE Arr(<<>>)
ShapeScore(j) == IF j.t = "number" THEN Num(Max(1, Min(10, j.n))) ELSE Num(5)

\* the object `out` of the variant with try/catch
ShapeOut(analysis) ==
  Obj8(ShapeString(analysis.f["industry"], "General"),
       ShapeString(analysis.f["role_seniority"], "No determinado"),
       ShapeArray(analysis.f["top_roles"], MaxTopRoles, <<>>),
       ShapeSkills(analysis.f["skills"]),
       ShapeScore(analysis.f["score"]),
       ShapeArray(analysis.f["red_flags"], MaxRedFlags, <<>>),
       ShapeString(analysis.f["summary"], "Análisis completo del CV."),
       ShapeArray(analysis.f["next_steps"], MaxNextSteps,
                  <<"Completar información de experiencia",
                    "Agregar métricas de impacto">>))

\* the object `out` of the variant without try/catch
ShapeOutStrict(analysis) ==
  Obj8(ShapeString(analysis.f["industry"], "General"),
       ShapeString(analysis.f["role_seniority"], "No determinado"),
       ShapeArray(analysis.f["top_roles"], MaxTopRoles, <<>>),
       ShapeSkills(analysis.f["skills"]),
       ShapeScore(analysis.f["score"]),
       ShapeArray(analysis.f["red_flags"], MaxRedFlags, <<>>),
       ShapeString(analysis.f["summary"], ""),
       ShapeArray(analysis.f["next_steps"], MaxNextSteps, <<>>))

\* the fixed object returned by the catch of analyzePublicCvText
BasicFallback ==
  Obj8(Str("IT"), Str("Mid-Level"),
       Arr(<<"Desarrollador Full Stack", "Desarrollador Backend">>),
       Arr(<<"React", "Node.js", "PostgreSQL", "Docker">>),
       Num(7),
       Arr(<<"Servicio de análisis temporalmente no disponible">>),
       Str("CV analizado con éxito. Para un análisis más detallado, registrate en Petrolink."),
       Arr(<<"Completar información de experiencia", "Agregar proyectos específicos">>))

\* length of the instruction and the CV delimiters put around the text
PromptLen == 489
PromptLenStrict == 1081

\* the text with normalizeText applied
CleanText(text) == [body |-> normalizeText(text.body), pad |-> text.pad]

\* `${instruction}\n\nCV:\n"""${clean}"""`
PayloadText(text, promptLen) ==
  [body |-> CleanText(text).body, pad |-> text.pad + promptLen]

\* what analyzePublicCvText does: returns out, rejects, or never settles
Outcome(st, out, req) == [st |-> st, out |-> out, requests |-> req]

\* publicCvService.js, with try/catch around the call and the shaping
Settle_shaped(ds) ==
  IF ds.st = "pending" THEN Outcome("pending", EmptyObject, ds.req)
  ELSE IF ds.st = "throw" \/ ds.v.kind = "null"
  THEN Outcome("value", BasicFallback, ds.req)
  ELSE Outcome("value", ShapeOut(ds.v), ds.req)

analyzePublicCvText_shaped(d, keyLen, cvText, r) ==
  Settle_shaped(deepseekAnalyzeCvText(d, keyLen, PayloadText(cvText, PromptLen), r))

\* the first version, without try/catch
Settle_shapedStrict(ds) ==
  IF ds.st = "pending" THEN Outcome("pending", EmptyObject, ds.req)
  ELSE IF ds.st = "throw" \/ ds.v.kind = "null"
  THEN Outcome("throw", EmptyObject, ds.req)
  ELSE Outcome("value", ShapeOutStrict(ds.v), ds.req)

analyzePublicCvText_shapedStrict(d, keyLen, cvText, r) ==
  Settle_shapedStrict(
    deepseekAnalyzeCvText(d, keyLen, PayloadText(cvText, PromptLenStrict), r))

\* getEmergencyFallback(cvText)
getEmergencyFallback ==
  WithSource(
    Obj8(Str("IT"), Str("Mid-Level"), Arr(<<"Technical Professional">>), Arr(<<>>),
         Num(5), Arr(<<"Emergency fallback - service issue">>),
         Str("Analysis service temporarily unavailable."),
         Arr(<<"Try again later or contact support">>)),
    "emergency-fallback")

\* the fixed object of the catch of the variant without dependencies
AbsoluteFallback ==
  Obj8(Str("General"), Str("Mid-Level"), Arr(<<"Professional", "Specialist">>),
       Arr(<<>>), Num(5), Arr(<<"Error en el análisis">>),
       Str("Análisis completado. Para resultados más precisos, intenta nuevamente."),
       Arr(<<"Verificar la información del CV",
             "Probar con un texto más descriptivo">>))

\* the variant that loads the service at start-up: the result is returned as
\* it came; reading result._source of null raises inside the try
Settle_loaded(ds) ==
  IF ds.st = "pending" THEN Outcome("pending", EmptyObject, ds.req)
  ELSE IF ds.st = "throw" \/ ds.v.kind = "null"
  THEN Outcome("value", getEmergencyFallback, ds.req)
  ELSE Outcome("value", ds.v, ds.req)

analyzePublicCvText_loaded(d, keyLen, cvText, r) ==
  Settle_loaded(deepseekAnalyzeCvText(d, keyLen, cvText, r))

\* the variant without dependencies: return await deepseekAnalyzeCvText(cvText)
Settle_direct(ds) ==
  IF ds.st = "pending" THEN Outcome("pending", EmptyObject, ds.req)
  ELSE IF ds.st = "throw" THEN Outcome("value", AbsoluteFallback, ds.req)
  ELSE Outcome("value", ds.v, ds.req)

analyzePublicCvText_direct(d, keyLen, cvText, r) ==
  Settle_direct(deepseekAnalyzeCvText(d, keyLen, cvText, r))

\* ----------------------------------------------------- analysis, the state
CvSenior == [body |-> <<"8", " ", "y", "e", "a", "r", "s", " ", "R", "e", "a", "c", "t", " ", "n", "o", "d", "e", " ", "d", "o", "c", "k", "e", "r">>, pad |-> 100]
CvShort  == [body |-> <<"2", " ", "a", "ñ", "o", "s", " ", "o", "i", "l">>, pad |-> 0]
CvPlain  == [body |-> <<"h", "e", "l", "l", "o">>, pad |-> 60]
CvEmpty  == [body |-> <<>>, pad |-> 0]
CvJunior == [body |-> <<"1", " ", "y", "e", "a", "r", " ", "r", "e", "a", "c", "t">>, pad |-> 60]
CvTexts  == {CvSenior, CvShort, CvPlain, CvEmpty, CvJunior}

AnalyzeImpls  == {"shaped", "shapedStrict", "loaded", "direct"}
DeepseekImpls == {"corrected", "strict", "embedded"}
KeyLens       == {0, 12, 32}

NoCall == [called |-> FALSE, text |-> CvEmpty,
           resp |-> Resp("error", FALSE, "notjson", "empty", EmptyObject),
           st |-> "none", out |-> EmptyObject, requests |-> 0]

\* the quota ledger at rest
QIdle ==
  /\ HIdle
  /\ impl = "none"
  /\ scenario = [texts |-> {}, emails |-> {}]
  /\ hasCreds = TRUE
  /\ maxFree = DefaultMaxFree
  /\ now = 0
  /\ quotaMemory = EmptyMap
  /\ table = EmptyMap
  /\ procs = [p \in Procs |-> Idle]
  /\ ncalls = 0
  /\ hist = [k \in QuotaKeys |-> [calls |-> 0, grants |-> 0]]
  /\ last = [called |-> FALSE, qk |-> NoKey, allowed |-> FALSE,
             remaining |-> 0, threw |-> FALSE, pre |-> NoSnap, post |-> NoSnap]
  /\ storeFailed = FALSE

AInit ==
  /\ QIdle
  /\ aImpl \in AnalyzeImpls
  /\ dImpl \in DeepseekImpls
  /\ dImpl = "embedded" => aImpl = "loaded"
  /\ apiKeyLen \in KeyLens
  /\ call = NoCall
  /\ remote = [pc |-> "idle"]
  /\ norm = [applied |-> 0]

\* the invocation with its input, the provider's answer and its settlement
CallOf(cvText, r, res) ==
  [called |-> TRUE, text |-> cvText, resp |-> r, st |-> res.st, out |-> res.out,
   requests |-> res.requests]

\* one invocation is followed from the call to its settlement
analyzePublicCvText(cvText, r) ==
  /\ aImpl \in AnalyzeImpls
  /\ ~call.called
  /\ call' = CallOf(cvText, r,
       CASE aImpl = "shaped" -> analyzePublicCvText_shaped(dImpl, apiKeyLen, cvText, r)
         [] aImpl = "loaded" -> analyzePublicCvText_loaded(dImpl, apiKeyLen, cvText, r)
         [] aImpl = "direct" -> analyzePublicCvText_direct(dImpl, apiKeyLen, cvText, r)
         [] OTHER -> analyzePublicCvText_shapedStrict(dImpl, apiKeyLen, cvText, r))
  /\ UNCHANGED <<aImpl, dImpl, apiKeyLen>>
  /\ UNCHANGED <<qvars, tvars, hvars>>

ANext == \E t \in CvTexts, r \in Responses : analyzePublicCvText(t, r)

SpecAnalyze == AInit /\ [][ANext]_vars

\* ------------------------------------------------- the claims, analysis
\* the request reached the provider
Requested == call.called /\ call.requests > 0

\* C9: analyzePublicCvText never throws or rejects, and what it returns has
\* all eight fields, whether the credential is missing, the provider fails,
\* or it answers with a JSON object that lacks fields.
C9_AnalyzeTotal ==
  (call.called /\ call.resp.cand.kind = "object")
  => /\ call.st # "throw"
     /\ call.st = "value"
        => /\ call.out.kind = "object"
           /\ \A x \in Fields : call.out.f[x].t # "undefined"

\* C10: when the remote call fails (network error, timeout, non-success
\* status, empty or unparseable content), the caller gets the local heuristic
\* analysis of the submitted text.
C10_FailureGivesLocalHeuristic ==
  (Requested /\ RemoteFailed(call.resp) /\ TextLen(call.text) >= 50)
  => /\ call.st = "value"
     /\ call.out = localCvAnalysis(call.text)

\* the credential is missing, or shorter than the length the key check asks
KeyRefused == apiKeyLen < MinKeyLen

\* C30: when the provider credential is missing or too short to be valid, the
\* analysis sends no request to the provider, raises no error, and returns
\* the local heuristic analysis of the submitted text.
C30_NoKeyGivesLocalHeuristic ==
  (call.called /\ KeyRefused /\ TextLen(call.text) >= 50)
  => /\ call.requests = 0
     /\ call.st = "value"
     /\ call.out = localCvAnalysis(call.text)

\* the analysis was made by a local fallback: the embedded function, or the
\* local analysis that deepseekService.js uses on every failure
LocalTierFired ==
  /\ call.called
  /\ \/ dImpl = "embedded"
     \/ dImpl = "corrected" /\ CorrectedFails(apiKeyLen, call.resp)

\* the years of experience that the fallback reads in the text, 3 when none
ExtractedYears ==
  LET textLower == ToLowerCase(call.text.body)
      y == IF dImpl = "embedded" THEN YearsFromEmbedded(textLower, 1)
           ELSE YearsFrom(textLower, 1)
  IN  IF y # -1 THEN y ELSE 3

\* C32: every local fallback derives role_seniority from the extracted years
\* by fixed thresholds: 5 or more is the senior tier, 2 or fewer the junior
\* tier, anything else (3 by default) the mid tier.
C32_SeniorityThresholds ==
  LocalTierFired
  => call.out.f["role_seniority"] =
       Str(IF ExtractedYears >= 5 THEN "Senior"
           ELSE IF ExtractedYears <= 2 THEN "Junior" ELSE "Mid-Level")

\* C33: whichever tier produced it, the analysis given to the caller carries
\* the eight schema fields and nothing else: no tier or fallback adds a
\* diagnostic field such as a source marker.
C33_NoDiagnosticField ==
  (call.called /\ call.st = "value" /\ call.out.kind = "object")
  => \A x \in AllFields \ Fields : call.out.f[x].t = "undefined"

\* ================================================ the remote call, by steps
\* The variants of deepseekAnalyzeCvText that resolve failures to a local
\* analysis: with an AbortController ("corrected"), with a timeout option
\* handed to the global fetch ("robust", "safe"), and with no timeout at all
\* ("nodeFetch").
TimedImpls == {"corrected", "robust", "safe", "nodeFetch"}

\* what the provider does with a request: the connection fails, no response
\* headers ever come, headers come and the body never ends, or the whole
\* response comes
Behaviours == {"rejects", "noHeaders", "bodyNeverEnds", "completes"}

\* key.trim().length < 10
MinKeyLenRobust == 10

\* the check of the key before any request
KeyAccepted(d, keyLen) ==
  CASE d = "corrected" -> keyLen >= MinKeyLen
    [] d = "robust" -> keyLen >= MinKeyLenRobust
    [] OTHER -> keyLen > 0

\* setTimeout(() => controller.abort(), 15000) with signal: controller.signal;
\* the global fetch has no timeout option, so `timeout: 10000` arms nothing
ArmsTimer(d) == d = "corrected"

\* the responses that come whole
CompleteResponses == {r \in Responses : r.net = "headers"}

\* the content of a whole response gives a value: strict or lenient parse
ContentParses(r) ==
  r.ok /\ r.body = "json" /\ (StrictParses(r) \/ (BraceMatch(r) /\ MatchParses(r)))

RemoteIdle ==
  [pc |-> "idle", timer |-> "none", beh |-> "completes", text |-> CvEmpty,
   resp |-> Resp("headers", TRUE, "json", "empty", EmptyObject),
   requests |-> 0, localEvals |-> 0, tier |-> "none"]

\* fetch(url, {...}): one request leaves
SendRequest(rem, d) ==
  [rem EXCEPT !.pc = "fetching", !.requests = @ + 1,
              !.timer = IF ArmsTimer(d) THEN "armed" ELSE "none"]

\* a failed attempt is retried once before the local tier is used
UseLocalTier_retry(rem) ==
  IF rem.requests < 2
  THEN [rem EXCEPT !.pc = "fetching", !.requests = @ + 1]
  ELSE [rem EXCEPT !.pc = "settled", !.tier = "local", !.localEvals = @ + 1]

\* return localCvAnalysis(inputText) / getFallbackAnalysis(inputText)
UseLocalTier(rem) ==
  [rem EXCEPT !.pc = "settled", !.tier = "local", !.localEvals = @ + 1]

\* return parsed
UseRemoteValue(rem) == [rem EXCEPT !.pc = "settled", !.tier = "remote"]

\* the call up to its first await
deepseekAnalyzeCvText_start(text, beh, r) ==
  /\ dImpl \in TimedImpls
  /\ remote.pc = "idle"
  /\ LET rem == [RemoteIdle EXCEPT !.text = text, !.beh = beh, !.resp = r]
     IN  remote' = IF KeyAccepted(dImpl, apiKeyLen)
                   THEN SendRequest(rem, dImpl)
                   ELSE UseLocalTier(rem)
  /\ UNCHANGED <<qvars, avars, norm, hvars>>

\* the fetch rejects: the catch runs
fetch_rejects ==
  /\ remote.pc = "fetching"
  /\ remote.beh = "rejects"
  /\ remote' = UseLocalTier(remote)
  /\ UNCHANGED <<qvars, avars, norm, hvars>>

\* the fetch resolves with the headers: clearTimeout, then the status check
fetch_resolves ==
  /\ remote.pc = "fetching"
  /\ remote.beh \in {"bodyNeverEnds", "completes"}
  /\ LET cleared == [remote EXCEPT !.timer = IF @ = "armed" THEN "cleared" ELSE @]
     IN  remote' = IF dImpl = "safe" /\ ~remote.resp.ok
                   THEN UseLocalTier(cleared)
                   ELSE [cleared EXCEPT !.pc = "reading"]
  /\ UNCHANGED <<qvars, avars, norm, hvars>>

\* response.text() / response.json() resolves: status, content, parse
body_resolves ==
  /\ remote.pc = "reading"
  /\ remote.beh = "completes"
  /\ remote' = IF ContentParses(remote.resp)
               THEN UseRemoteValue(remote)
               ELSE UseLocalTier(remote)
  /\ UNCHANGED <<qvars, avars, norm, hvars>>

\* the timer fires: controller.abort() rejects a fetch that is still waiting
\* for headers, and does nothing to a call that has settled
abort_fires ==
  /\ remote.timer = "armed"
  /\ remote' = IF remote.pc = "fetching"
               THEN UseLocalTier([remote EXCEPT !.timer = "fired"])
               ELSE [remote EXCEPT !.timer = "fired"]
  /\ UNCHANGED <<qvars, avars, norm, hvars>>

TInit ==
  /\ QIdle
  /\ aImpl = "none"
  /\ dImpl \in TimedImpls
  /\ apiKeyLen \in KeyLens
  /\ call = NoCall
  /\ remote = RemoteIdle
  /\ norm = [applied |-> 0]

TNext ==
  \/ \E t \in CvTexts, b \in Behaviours, r \in CompleteResponses :
       deepseekAnalyzeCvText_start(t, b, r)
  \/ fetch_rejects
  \/ fetch_resolves
  \/ body_resolves
  \/ abort_fires

\* every step that can be taken is taken in the end: the event loop runs the
\* continuations and the timers that are due
SpecTimed == TInit /\ [][TNext]_vars /\ WF_vars(TNext)

\* the provider never completes its response
NeverCompletes == remote.beh \in {"noHeaders", "bodyNeverEnds"}

\* C11: when the provider accepts the request and never completes its
\* response, the call still settles in the end, on the local tier.
C11_HangEventuallyReturns ==
  (remote.pc \in {"fetching", "reading"} /\ NeverCompletes)
    ~> (remote.pc = "settled")

\* C12: one invocation sends at most one request to the provider and
\* evaluates the local tier at most once, whatever the failure.
C12_AtMostOneRequest ==
  remote.pc # "idle" => remote.requests <= 1 /\ remote.localEvals <= 1

C12_Witness ==
  /\ remote.pc = "settled"
  /\ remote.requests = 1
  /\ remote.tier = "local"
  /\ remote.localEvals = 1
  /\ remote.timer = "fired"

\* ------------------------------------------------- the claims, shaping
\* the call returned a value
Answered == call.called /\ call.st = "value"

\* the value that came out of the remote tier or of a fallback is an object
\* whose eight fields are what the shaping step makes of them
IsShaped(out) ==
  /\ out.kind = "object"
  /\ \A x \in Fields : out.f[x] = ShapeOut(out).f[x]

\* C13: whatever tier produced it, the result returned has been through the
\* shaping step: defaults, clamping and truncation are in place.
C13_ResultIsShaped ==
  (Answered /\ call.resp.cand.kind = "object") => IsShaped(call.out)

\* C14: the score of every returned analysis is a number from 1 to 10,
\* whether it came from the provider, a local analysis or a fixed fallback.
C14_ScoreInRange ==
  (Answered /\ call.resp.cand.kind = "object" /\ call.resp.cand.f["score"].t = "number")
  => /\ call.out.f["score"].t = "number"
     /\ call.out.f["score"].n \in 1..10

\* String.prototype.toLowerCase() on the strings of the corpus
LowerStr(x) ==
  CASE x = "A" -> "a" [] x = "B" -> "b" [] x = "UCI" -> "uci"
    [] x = "Triage" -> "triage" [] x = "React" -> "react"
    [] x = "Node.js" -> "node.js" [] x = "PostgreSQL" -> "postgresql"
    [] x = "Docker" -> "docker"
    [] x = "Habilidades técnicas" -> "habilidades técnicas"
    [] OTHER -> x

\* the result came out of the shaping step of analyzePublicCvText
ShapedHere == Answered /\ aImpl \in {"shaped", "shapedStrict"}

\* C15: no two entries of the returned skills are equal when lower-cased;
\* the first occurrence is the one kept.
C15_SkillsUniqueIgnoringCase ==
  (ShapedHere /\ call.resp.cand.kind = "object")
  => LET a == call.out.f["skills"].a
     IN  \A i, j \in 1..Len(a) : i < j => LowerStr(a[i]) # LowerStr(a[j])

\* the array-of-string fields and the most entries each may have
ArrayLimit(x) ==
  CASE x = "top_roles" -> MaxTopRoles [] x = "skills" -> MaxSkills
    [] x = "red_flags" -> MaxRedFlags [] x = "next_steps" -> MaxNextSteps
    [] OTHER -> 0
ArrayFields == {"top_roles", "skills", "red_flags", "next_steps"}

\* C16: when the provider's arrays are over-long and hold empty strings, each
\* array of the result keeps to its maximum length and holds no empty
\* element.
C16_ArraysBounded ==
  (ShapedHere /\ call.resp.cand = CandLong /\ StrictParses(call.resp))
  => \A x \in ArrayFields :
       LET a == call.out.f[x].a
       IN  /\ call.out.f[x].t = "array"
           /\ Len(a) <= ArrayLimit(x)
           /\ \A i \in 1..Len(a) : a[i] # ""

\* the value shaped is the one parsed from the provider's content
RemoteUsed == call.called /\ call.requests = 1 /\ ContentParses(call.resp)

\* the string fields and the default the specification documents for each
StringDefault(x) ==
  CASE x = "industry" -> "General" [] x = "role_seniority" -> "No determinado"
    [] OTHER -> ""
StringFields == {"industry", "role_seniority", "summary"}

\* C17: a string field that came as a string is kept; otherwise it becomes
\* "General" (industry), "No determinado" (role_seniority) or "" (summary).
C17_StringDefaults ==
  (ShapedHere /\ RemoteUsed /\ call.resp.cand.kind = "object")
  => \A x \in StringFields :
       call.out.f[x] = IF call.resp.cand.f[x].t = "string"
                       THEN call.resp.cand.f[x]
                       ELSE Str(StringDefault(x))

\* C18: when the parsed content is null, a number, a string, an array or {},
\* shaping raises no error and gives a result with all eight fields.
C18_ShapingTotal ==
  (aImpl \in {"shaped", "shapedStrict"} /\ RemoteUsed
     /\ call.resp.cand \in {NullValue, NumberValue, StringValue, ArrayValue, EmptyObject})
  => /\ call.st = "value"
     /\ \A x \in Fields : call.out.f[x].t # "undefined"

\* ======================================================= the normalizer
\* cleanText of the text utilities: the same chain behind an empty check
cleanText(input) ==
  IF input = <<>> THEN <<>>
  ELSE Trim(CollapseNewlines(CollapseBlanks(ReplaceCRLF(input))))

NormalizerFns == {"normalizeText", "cleanText"}
ApplyFn(fn, t) == IF fn = "cleanText" THEN cleanText(t) ELSE normalizeText(t)

\* the characters of the raw texts
Alphabet == {"a", " ", "\n", "\r"}
Strings == UNION {[1..n -> Alphabet] : n \in 0..MaxTextLen}

\* v with the n characters from position i replaced by w
Splice(v, i, n, w) == SubSeq(v, 1, i - 1) \o w \o SubSeq(v, i + n, Len(v))

\* one line ending written the other way: LF as CRLF, or CRLF as LF
OtherLineEnding(v) ==
  { Splice(v, i, 1, <<"\r", "\n">>) :
      i \in {k \in 1..Len(v) : v[k] = "\n" /\ (k = 1 \/ v[k - 1] # "\r")} }
  \cup { Splice(v, i, 2, <<"\n">>) :
      i \in {k \in 1..(Len(v) - 1) : v[k] = "\r" /\ v[k + 1] = "\n"} }

\* a run of spaces and tabs made longer, shorter, or of the other character
OtherBlankRun(v) ==
  { Splice(v, i, 1, <<v[i], b>>) : i \in {k \in 1..Len(v) : v[k] \in Blank}, b \in Blank }
  \cup { Splice(v, i, 1, <<b>>) : i \in {k \in 1..Len(v) : v[k] \in Blank}, b \in Blank }
  \cup { Splice(v, i, 1, <<>>) :
           i \in {k \in 1..(Len(v) - 1) : v[k] \in Blank /\ v[k + 1] \in Blank} }

\* a run of three or more line feeds made one longer or, from four, one shorter
OtherBlankLines(v) ==
  { Splice(v, i, 1, <<"\n", "\n">>) :
      i \in {k \in 1..(Len(v) - 2) : v[k] = "\n" /\ v[k + 1] = "\n" /\ v[k + 2] = "\n"} }
  \cup { Splice(v, i, 1, <<>>) :
      i \in {k \in 1..(Len(v) - 3) :
               v[k] = "\n" /\ v[k + 1] = "\n" /\ v[k + 2] = "\n" /\ v[k + 3] = "\n"} }

\* white space added or removed at either end
OtherEdges(v) ==
  { <<w>> \o v : w \in WhiteSpace } \cup { v \o <<w>> : w \in WhiteSpace }
  \cup (IF v # <<>> /\ v[1] \in WhiteSpace THEN {Tail(v)} ELSE {})
  \cup (IF v # <<>> /\ v[Len(v)] \in WhiteSpace THEN {SubSeq(v, 1, Len(v) - 1)} ELSE {})

Variations(v) ==
  OtherLineEnding(v) \cup OtherBlankRun(v) \cup OtherBlankLines(v) \cup OtherEdges(v)

\* const cv_hash = sha256(normalizeText(cvText))
cvHashOf(cvText) == sha256(normalizeText(cvText))

\* const quotaKey = emailNorm ? `${shortHash}:${emailNorm}` : shortHash
memHashKeyOf(cvText, email) ==
  LET shortHash == shortHashOf(sha256(normalizeText(cvText)))
      emailNorm == normalizeEmail(email)
  IN  IF emailNorm # null THEN shortHash \o <<":">> \o emailNorm ELSE shortHash

NInit ==
  /\ QIdle
  /\ aImpl = "none"
  /\ dImpl = "none"
  /\ apiKeyLen = 0
  /\ call = NoCall
  /\ remote = RemoteIdle
  /\ \E fn \in NormalizerFns, t \in Strings :
       norm = [fn |-> fn, input |-> t, varied |-> t, nvary |-> 0,
               out1 |-> <<>>, out2 |-> <<>>, applied |-> 0]

\* the same text is submitted again, written differently
resubmit_varied ==
  /\ norm.applied = 0
  /\ norm.fn = "normalizeText"
  /\ norm.nvary < MaxVary
  /\ ~Includes(norm.input, "\r")
  /\ \E v \in Variations(norm.varied) :
       norm' = [norm EXCEPT !.varied = v, !.nvary = @ + 1]
  /\ UNCHANGED <<qvars, avars, remote, hvars>>

\* the function applied to the text, and then to its own result
normalizeText_apply ==
  /\ norm.applied < 2
  /\ norm' = IF norm.applied = 0
             THEN [norm EXCEPT !.out1 = ApplyFn(norm.fn, norm.varied), !.applied = 1]
             ELSE [norm EXCEPT !.out2 = ApplyFn(norm.fn, norm.out1), !.applied = 2]
  /\ UNCHANGED <<qvars, avars, remote, hvars>>

NNext == resubmit_varied \/ normalizeText_apply

SpecNormalize == NInit /\ [][NNext]_vars

\* C19: normalizeText applied to its own result changes nothing.
C19_NormalizeIdempotent == norm.applied = 2 => norm.out2 = norm.out1

MinCvTextLen == 50

PublicRoutes == {"serverText", "apiText", "apiFile"}

\* s without its trailing white space
TrimEnd(s) == Reverse(DropRun(Reverse(s), WhiteSpace))

\* cv_text.trim().length: the filler comes first and holds no white space
TrimmedLen(text) ==
  IF text.pad = 0 THEN Len(Trim(text.body)) ELSE text.pad + Len(TrimEnd(text.body))

\* the length is taken without trimming
CvTextAccepted_untrimmed(text) == TextLen(text) > 0 /\ TextLen(text) >= MinCvTextLen

\* !(!cv_text || cv_text.trim().length < 50)
CvTextAccepted(text) == TextLen(text) > 0 /\ TrimmedLen(text) >= MinCvTextLen

\* the texts submitted: none, 49 characters, 50 characters, 51 characters of
\* which 49 remain after trimming, and a longer one
SubmittedTexts ==
  { CvEmpty,
    [body |-> TextA, pad |-> MinCvTextLen - 5],
    [body |-> TextA, pad |-> MinCvTextLen - 4],
    [body |-> TextAws, pad |-> MinCvTextLen - 7],
    [body |-> TextB, pad |-> MinCvTextLen + 10] }
SubmittedEmails == {<<>>, EmailA}

\* req.file is missing, extractTextFromFile throws, or the text is there
Uploads == {"none", "unreadable", "ok"}

\* what the provider does in the runs of the routes
RouteResponses ==
  { Resp("error", FALSE, "notjson", "empty", EmptyObject),
    Resp("headers", TRUE, "json", "json", CandFull),
    Resp("headers", TRUE, "json", "json", NullValue) }

\* a response body without an analysis field
NoAnalysis == [kind |-> "absent"]

\* JSON.stringify of a promise: an object without properties
PendingPromise == EmptyObject

PubIdle ==
  [pc |-> "idle", route |-> "none", upload |-> "ok", cv_text |-> CvEmpty,
   email |-> <<>>, n0 |-> 0,
   ledger0 |-> <<EmptyMap, EmptyMap>>, quota |-> "none", invoked |-> FALSE,
   status |-> 0, analysis |-> NoAnalysis]

\* res.status(status).json({..., analysis})
Respond(p, status, analysis) ==
  [p EXCEPT !.pc = "responded", !.status = status, !.analysis = analysis]

\* the handler from the request to its first await of the quota ledger
route_receive(route, upload, text, email) ==
  /\ pub.pc \in {"idle", "responded"}
  /\ CanStart
  /\ upload = "ok" \/ (route = "apiFile" /\ text = CvEmpty)
  /\ LET p == [PubIdle EXCEPT !.pc = "quota", !.route = route, !.upload = upload,
                              !.cv_text = text,
                              !.email = email, !.n0 = ncalls,
                              !.ledger0 = <<quotaMemory, table>>]
     IN  pub' = IF upload = "none" THEN Respond(p, 400, NoAnalysis)
                ELSE IF upload = "unreadable" THEN Respond(p, 500, NoAnalysis)
                ELSE IF ~CvTextAccepted(text) THEN Respond(p, 400, NoAnalysis)
                ELSE p
  /\ call' = NoCall
  /\ UNCHANGED <<aImpl, dImpl, apiKeyLen, gate, prof, parsed, limiter, batch>>
  /\ UNCHANGED <<qvars, tvars>>

\* the analysis is started whatever the ledger answered
AfterQuota_alwaysAnalyze(p, q) ==
  IF q.threw THEN Respond([p EXCEPT !.quota = "threw"], 500, NoAnalysis)
  ELSE IF ~q.allowed
  THEN Respond([p EXCEPT !.quota = "denied", !.invoked = TRUE], 429, NoAnalysis)
  ELSE IF p.route = "serverText"
  THEN Respond([p EXCEPT !.quota = "allowed", !.invoked = TRUE], 200, PendingPromise)
  ELSE [p EXCEPT !.pc = "analysis", !.quota = "allowed", !.invoked = TRUE]

\* the handler after `await checkAndConsumePublicQuota(...)` settled with q:
\* 500 from the catch, 429 when denied; when allowed, server.js calls
\* analyzePublicCvText without await and answers at once, api/index.js awaits
AfterQuota(p, q) ==
  IF q.threw THEN Respond([p EXCEPT !.quota = "threw"], 500, NoAnalysis)
  ELSE IF ~q.allowed THEN Respond([p EXCEPT !.quota = "denied"], 429, NoAnalysis)
  ELSE IF p.route = "serverText"
  THEN Respond([p EXCEPT !.quota = "allowed", !.invoked = TRUE], 200, PendingPromise)
  ELSE [p EXCEPT !.pc = "analysis", !.quota = "allowed", !.invoked = TRUE]

\* the quota call of the request being served has not started
InQuota == pub.pc = "quota" /\ ncalls = pub.n0 /\ NoneSuspended

route_quota_settled ==
  /\ pub.pc = "quota"
  /\ ncalls = pub.n0 + 1
  /\ NoneSuspended
  /\ pub' = AfterQuota(pub, last)
  /\ UNCHANGED <<gate, prof, parsed, limiter, batch>>
  /\ UNCHANGED <<qvars, avars, tvars>>

\* the handler gives the unit back when the analysis threw
route_analysis_settled_refund ==
  /\ pub.pc = "analysis"
  /\ call.called
  /\ call.st # "pending"
  /\ pub' = IF call.st = "throw" THEN Respond(pub, 500, NoAnalysis)
            ELSE Respond(pub, 200, call.out)
  /\ quotaMemory' = IF call.st = "throw" THEN pub.ledger0[1] ELSE quotaMemory
  /\ table' = IF call.st = "throw" THEN pub.ledger0[2] ELSE table
  /\ UNCHANGED <<gate, prof, parsed, limiter, batch>>
  /\ UNCHANGED <<impl, scenario, hasCreds, maxFree, now, procs, ncalls, hist, last,
                 storeFailed, avars, tvars>>

\* the handler after `await analyzePublicCvText(...)` settled
route_analysis_settled ==
  /\ pub.pc = "analysis"
  /\ call.called
  /\ call.st # "pending"
  /\ pub' = IF call.st = "throw" THEN Respond(pub, 500, NoAnalysis)
            ELSE Respond(pub, 200, call.out)
  /\ UNCHANGED <<gate, prof, parsed, limiter, batch>>
  /\ UNCHANGED <<qvars, avars, tvars>>

PInit ==
  /\ impl \in {"memDay", "memHash", "supabaseStrict"}
  /\ hasCreds = TRUE
  /\ scenario = [texts |-> {TextA, TextB}, emails |-> SubmittedEmails]
  /\ maxFree = DefaultMaxFree
  /\ now = 0
  /\ quotaMemory = EmptyMap
  /\ table = EmptyMap
  /\ procs = [p \in Procs |-> Idle]
  /\ ncalls = 0
  /\ hist = [k \in QuotaKeys |-> [calls |-> 0, grants |-> 0]]
  /\ last = [called |-> FALSE, qk |-> NoKey, allowed |-> FALSE,
             remaining |-> 0, threw |-> FALSE, pre |-> NoSnap, post |-> NoSnap]
  /\ storeFailed = FALSE
  /\ aImpl \in {"shaped", "shapedStrict"}
  /\ dImpl = "corrected"
  /\ apiKeyLen = 32
  /\ call = NoCall
  /\ remote = RemoteIdle
  /\ norm = [applied |-> 0]
  /\ pub = PubIdle
  /\ gate = [pc |-> "idle"]
  /\ prof = [pc |-> "idle"]
  /\ parsed = [pc |-> "idle"]
  /\ limiter = [pc |-> "idle"]
  /\ batch = [pc |-> "idle"]

PNext ==
  \/ \E route \in PublicRoutes, upload \in Uploads, text \in SubmittedTexts,
        email \in SubmittedEmails : route_receive(route, upload, text, email)
  \/ InQuota /\ checkAndConsumePublicQuota_memDay(pub.cv_text.body, pub.email)
  \/ InQuota /\ checkAndConsumePublicQuota_memHash(pub.cv_text.body, pub.email)
  \/ \E sel \in StoreOutcomes :
       InQuota /\ checkAndConsumePublicQuota_strictSelect(1, pub.cv_text.body,
                                                          pub.email, sel)
  \/ \E out \in StoreOutcomes : checkAndConsumePublicQuota_strictWrite(1, out)
  \/ route_quota_settled
  \/ \E r \in RouteResponses :
       pub.pc # "idle" /\ pub.invoked /\ analyzePublicCvText(pub.cv_text, r)
  \/ route_analysis_settled

SpecRoute == PInit /\ [][PNext]_vars

\* ------------------------------------------------- the claims, routes
\* C23: a request whose quota check returned allowed=false is answered 429
\* and its analysis is never started; analyzePublicCvText is started only
\* for a request whose own quota check returned allowed=true.
C23_DeniedNeverAnalyzed ==
  pub.pc # "idle"
  => /\ pub.quota = "denied"
        => /\ pub.pc = "responded" /\ pub.status = 429
           /\ ~pub.invoked /\ ~call.called
           /\ last.called /\ ~last.allowed
     /\ (pub.invoked \/ call.called)
        => /\ pub.quota = "allowed"
           /\ ncalls = pub.n0 + 1
           /\ last.called /\ ~last.threw /\ last.allowed
     /\ (pub.pc = "quota" \/ pub.status = 400 \/ pub.quota = "threw") => ~call.called

C23_Witness ==
  /\ pub.pc = "responded" /\ pub.quota = "denied" /\ pub.status = 429
  /\ ~last.allowed /\ ~call.called
  /\ ncalls = DefaultMaxFree + 1

\* C24: a request answered with 200 is answered after its analysis has
\* completed, and the analysis field of the response is the completed result
\* with its eight fields.
C24_OkCarriesAnalysis ==
  (pub.pc = "responded" /\ pub.status = 200)
  => /\ call.called /\ call.st = "value"
     /\ pub.analysis = call.out
     /\ pub.analysis.kind = "object"
     /\ \A x \in Fields : pub.analysis.f[x].t # "undefined"

\* the submission has no text, or fewer than 50 characters after trimming
ShortText(p) ==
  \/ p.upload = "none"
  \/ p.upload = "ok" /\ (TextLen(p.cv_text) = 0 \/ TrimmedLen(p.cv_text) < MinCvTextLen)

\* C25: a submission whose text is missing or shorter than 50 characters
\* after trimming is answered with 400, the quota ledger is as it was when
\* the request arrived, and the analysis is not started.
C25_ShortTextRejected ==
  (pub.pc # "idle" /\ ShortText(pub))
  => /\ pub.pc = "responded" /\ pub.status = 400
     /\ ncalls = pub.n0
     /\ <<quotaMemory, table>> = pub.ledger0
     /\ ~pub.invoked /\ ~call.called

C25_Witness ==
  /\ pub.pc = "responded" /\ pub.status = 400
  /\ pub.cv_text = [body |-> TextAws, pad |-> MinCvTextLen - 7]
  /\ TextLen(pub.cv_text) > MinCvTextLen
  /\ pub.n0 = 2 /\ pub.ledger0 # <<EmptyMap, EmptyMap>>

\* the count stored under key k of a ledger: quotaMemory or the table
StoredCount(m, k) ==
  IF ~MapHas(m, k) THEN 0
  ELSE IF "count" \in DOMAIN m[k] THEN m[k].count ELSE m[k].analysis_count

\* the keys whose count in m is not what it was in m0
Recounted(m0, m) == {k \in DOMAIN m : StoredCount(m, k) # StoredCount(m0, k)}

\* no record is lost and no count goes down from m to m2
NotLowered(m, m2) ==
  \A k \in DOMAIN m : MapHas(m2, k) /\ StoredCount(m2, k) >= StoredCount(m, k)

\* the request served was allowed by the ledger
Consumed == pub.pc \in {"analysis", "responded"} /\ pub.quota = "allowed"

\* since the request arrived exactly one record went up, by one
UnitKept ==
  LET mem  == Recounted(pub.ledger0[1], quotaMemory)
      rows == Recounted(pub.ledger0[2], table)
  IN  /\ Cardinality(mem) + Cardinality(rows) = 1
      /\ \A k \in mem : StoredCount(quotaMemory, k) = StoredCount(pub.ledger0[1], k) + 1
      /\ \A k \in rows : StoredCount(table, k) = StoredCount(pub.ledger0[2], k) + 1

\* C37: within one bucket no step lowers the count of a quota record, and a
\* unit consumed by an allowed check stays consumed while the analysis runs
\* and after the response, whether the analysis fell back to the local tier
\* or the request ended in 500.
C37_NoRefund ==
  [][/\ NotLowered(quotaMemory, quotaMemory')
     /\ NotLowered(table, table')
     /\ Consumed' => UnitKept']_vars

\* an allowed request whose analysis threw was answered 500
C37_Witness ==
  /\ Consumed
  /\ pub.pc = "responded"
  /\ pub.status = 500
  /\ call.called /\ call.st = "throw"
  /\ UnitKept

\* ==================================================== the protected routes
\* validateApiKey and logRequest of middleware/security.js, mounted in front
\* of the /v1 routes of server.js and api-server.js and of /v1/private of
\* api/index.js.  Requests are served one after another.

\* the routes registered after the middleware, by application
ProtectedRoutes ==
  { [app |-> "server", path |-> "/v1/analyze/profile"],
    [app |-> "server", path |-> "/v1/search"],
    [app |-> "apiServer", path |-> "/v1/analyze/profile"],
    [app |-> "apiServer", path |-> "/v1/analyze/cv"],
    [app |-> "apiServer", path |-> "/v1/search"],
    [app |-> "apiServer", path |-> "/v1/batch/analyze"],
    [app |-> "apiIndex", path |-> "/v1/private/search"] }

\* a key sent with a request: absent, not in api_keys, in api_keys with
\* is_active false, in api_keys with is_active true
ApiKeys == {"none", "unknown", "inactive", "active"}

\* req.headers['x-api-key'] || req.query.api_key
ApiKeyOf(header, query) == IF header # "none" THEN header ELSE query

\* what `await supabase.from('api_keys')...single()` does for a key: it
\* returns the row, returns no row (with an error), returns an error, or raises
LookupOutcomes(key) ==
  (IF key = "active" THEN {"row"} ELSE {"norow"}) \cup {"error", "raise"}

\* res.status(status).json(...)
GateAnswers(g, status) == [g EXCEPT !.pc = "done", !.status = status]

\* a lookup that returned an error lets the request through
AfterLookup_errorPasses(g, outcome) ==
  IF outcome = "raise" THEN GateAnswers(g, 500)
  ELSE IF outcome = "norow" THEN GateAnswers(g, 401)
  ELSE [g EXCEPT !.pc = "passed", !.nextCalled = TRUE]

\* validateApiKey after the lookup: `if (error || !data)` answers 401, the
\* catch answers 500, otherwise next()
AfterLookup(g, outcome) ==
  IF outcome = "raise" THEN GateAnswers(g, 500)
  ELSE IF outcome \in {"norow", "error"} THEN GateAnswers(g, 401)
  ELSE [g EXCEPT !.pc = "passed", !.nextCalled = TRUE]

\* validateApiKey up to its first await
validateApiKey(route, header, query) ==
  /\ gate.pc \in {"idle", "done"}
  /\ LET g == [pc |-> "lookup", route |-> route, header |-> header, query |-> query,
               key |-> ApiKeyOf(header, query), outcome |-> "none", status |-> 0,
               nextCalled |-> FALSE, logged |-> FALSE, handlerRan |-> FALSE]
     IN  gate' = IF g.key = "none" THEN GateAnswers(g, 401) ELSE g
  /\ UNCHANGED <<pub, prof, parsed, limiter, batch>>
  /\ UNCHANGED <<qvars, avars, tvars>>

\* validateApiKey from the answer of the store on
validateApiKey_lookup(outcome) ==
  /\ gate.pc = "lookup"
  /\ outcome \in LookupOutcomes(gate.key)
  /\ gate' = AfterLookup([gate EXCEPT !.outcome = outcome], outcome)
  /\ UNCHANGED <<pub, prof, parsed, limiter, batch>>
  /\ UNCHANGED <<qvars, avars, tvars>>

\* logRequest: req.requestId is set, the log entry is sent without waiting, next()
logRequest ==
  /\ gate.pc = "passed"
  /\ gate' = [gate EXCEPT !.pc = "logged", !.logged = TRUE]
  /\ UNCHANGED <<pub, prof, parsed, limiter, batch>>
  /\ UNCHANGED <<qvars, avars, tvars>>

\* the route handler runs and answers
protected_handler ==
  /\ gate.pc = "logged"
  /\ gate' = [GateAnswers(gate, 200) EXCEPT !.handlerRan = TRUE]
  /\ UNCHANGED <<pub, prof, parsed, limiter, batch>>
  /\ UNCHANGED <<qvars, avars, tvars>>

GInit ==
  /\ QIdle
  /\ aImpl = "none"
  /\ dImpl = "none"
  /\ apiKeyLen = 0
  /\ call = NoCall
  /\ remote = RemoteIdle
  /\ norm = [applied |-> 0]

GNext ==
  \/ \E route \in ProtectedRoutes, header \in ApiKeys, query \in ApiKeys :
       validateApiKey(route, header, query)
  \/ \E outcome \in {"row", "norow", "error", "raise"} : validateApiKey_lookup(outcome)
  \/ logRequest
  \/ protected_handler

SpecGate == GInit /\ [][GNext]_vars

\* the request carries no key, or a key without an active row in api_keys
NoActiveKey ==
  /\ gate.pc # "idle"
  /\ \/ gate.header = "none" /\ gate.query = "none"
     \/ gate.header \in {"unknown", "inactive"}
     \/ gate.header = "none" /\ gate.query \in {"unknown", "inactive"}

\* C26, as stated: a request to a protected route with no API key, or with a
\* key that has no active match, is answered 401 and never reaches the route
\* handler; the handler runs only after validateApiKey has called next().
C26_UnauthorizedIs401 ==
  /\ NoActiveKey => (~gate.handlerRan /\ ~gate.nextCalled)
  /\ (NoActiveKey /\ gate.pc = "done") => gate.status = 401
  /\ (gate.pc # "idle" /\ gate.handlerRan) => gate.nextCalled

\* C26, amended: such a request never reaches the route handler and is
\* answered 401, or 500 when the lookup of the key raises; the handler runs
\* only after validateApiKey has called next().
C26_UnauthorizedNeverHandled ==
  /\ NoActiveKey => (~gate.handlerRan /\ ~gate.nextCalled)
  /\ (NoActiveKey /\ gate.pc = "done")
     => gate.status = (IF gate.outcome = "raise" THEN 500 ELSE 401)
  /\ (gate.pc # "idle" /\ gate.handlerRan) => gate.nextCalled

C26_Witness ==
  /\ gate.pc = "done" /\ gate.key = "inactive" /\ gate.outcome = "norow"
  /\ gate.status = 401 /\ ~gate.handlerRan

\* ====================================================== analyzeProfileAI
\* services/aiService.js: the profile analysis with its mock and deepseek
\* modes.  A profile is what parseProfile returns: habilidades is an array of
\* strings, descripcion and experienciaOilGas are strings.

ProfileEmpty ==
  [habilidades |-> <<>>, descripcion |-> <<>>, experienciaOilGas |-> <<>>]
ProfileHse ==
  [habilidades |-> << <<"H", "S", "E">> >>, descripcion |-> <<"x">>,
   experienciaOilGas |-> <<"8", " ", "a", "ñ", "o", "s">>]
ProfileFull ==
  [habilidades |-> << <<"N", "E", "B", "O", "S", "H">>, <<"h", "s", "e", " ", "2">>,
                      <<"a">>, <<"b">>, <<"c">> >>,
   descripcion |-> <<"O", "i", "l", " ", "&", " ", "G", "a", "s">>,
   experienciaOilGas |-> <<>>]
Profiles == {ProfileEmpty, ProfileHse, ProfileFull}

\* `${profile.descripcion || ""} ${profile.experienciaOilGas || ""}`.toLowerCase()
ProfileText(profile) ==
  ToLowerCase(profile.descripcion \o <<" ">> \o profile.experienciaOilGas)

\* scoreHeuristic(profile)
scoreHeuristic(profile) ==
  LET skills == profile.habilidades
      text   == ProfileText(profile)
      s1 == IF \/ IncludesStr(text, <<"o", "i", "l">>)
               \/ IncludesStr(text, <<"g", "a", "s">>)
               \/ IncludesStr(text, <<"p", "e", "t", "r", "o", "l">>)
            THEN 2 ELSE 0
      s2 == IF \E i \in 1..Len(skills) :
                 IncludesStr(ToLowerCase(skills[i]), <<"h", "s", "e">>)
            THEN 2 ELSE 0
      s3 == IF Len(skills) >= 5 THEN 1 ELSE 0
  IN  Max(1, Min(10, 5 + s1 + s2 + s3))

\* process.env.AI_PROVIDER: unset, or a name
ProviderEnvs ==
  { <<>>, <<"m", "o", "c", "k">>, <<"o", "p", "e", "n", "a", "i">>,
    <<"d", "e", "e", "p", "s", "e", "e", "k">>,
    <<"D", "e", "e", "p", "S", "e", "e", "k">> }

deepseek == <<"d", "e", "e", "p", "s", "e", "e", "k">>

\* an unset AI_PROVIDER selects the external provider
ModeOf_defaultDeepseek(env) == ToLowerCase(IF env = <<>> THEN deepseek ELSE env)

\* (process.env.AI_PROVIDER || "mock").toLowerCase()
ModeOf(env) == ToLowerCase(IF env = <<>> THEN <<"m", "o", "c", "k">> ELSE env)

\* what the fetch of the provider does: it rejects, answers with a
\* non-success status, with content that parses, with content that holds no
\* JSON object, or with content whose brace match does not parse
FetchAnswers == {"rejects", "notOk", "ok", "prose", "brokenJson"}

ProfIdle == [pc |-> "idle"]

\* one call of analyzeProfileAI up to its return or its first await; depth is
\* the number of calls of analyzeProfileAI nested in the first
ProfCall(p) ==
  IF ModeOf(p.env) # deepseek
  THEN [p EXCEPT !.pc = "settled", !.provider = "mock",
                 !.score = scoreHeuristic(p.profile)]
  ELSE IF ~p.url \/ ~p.key
  THEN [p EXCEPT !.pc = "missing"]
  ELSE [p EXCEPT !.pc = "fetching", !.requests = @ + 1]

\* analyzeProfileAI(profile), called by the application
analyzeProfileAI(env, url, key, profile) ==
  /\ prof.pc \in {"idle", "settled", "rejected"}
  /\ prof' = ProfCall([pc |-> "called", env |-> env, url |-> url, key |-> key,
                       profile |-> profile, depth |-> 0, requests |-> 0,
                       provider |-> "none", score |-> 0])
  /\ UNCHANGED <<pub, gate, parsed, limiter, batch>>
  /\ UNCHANGED <<qvars, avars, tvars>>

\* `...(await analyzeProfileAI({ ...profile, _fallback: true }))`: the
\* function calls itself under the same environment; the stack is full after
\* MaxStack nested calls and RangeError rejects the call
analyzeProfileAI_fallback ==
  /\ prof.pc \in {"missing", "notOk"}
  /\ prof' = IF prof.depth = MaxStack THEN [prof EXCEPT !.pc = "rejected"]
             ELSE ProfCall([prof EXCEPT !.depth = @ + 1])
  /\ UNCHANGED <<pub, gate, parsed, limiter, batch>>
  /\ UNCHANGED <<qvars, avars, tvars>>

\* the fetch settles: lines 72-107
analyzeProfileAI_fetched(ans) ==
  /\ prof.pc = "fetching"
  /\ prof' = CASE ans \in {"rejects", "brokenJson"} -> [prof EXCEPT !.pc = "rejected"]
               [] ans = "notOk" -> [prof EXCEPT !.pc = "notOk"]
               [] OTHER -> [prof EXCEPT !.pc = "settled", !.provider = "deepseek"]
  /\ UNCHANGED <<pub, gate, parsed, limiter, batch>>
  /\ UNCHANGED <<qvars, avars, tvars>>

FInit ==
  /\ QIdle
  /\ aImpl = "none"
  /\ dImpl = "none"
  /\ apiKeyLen = 0
  /\ call = NoCall
  /\ remote = RemoteIdle
  /\ norm = [applied |-> 0]

FNext ==
  \/ \E env \in ProviderEnvs, url \in BOOLEAN, key \in BOOLEAN, profile \in Profiles :
       analyzeProfileAI(env, url, key, profile)
  \/ analyzeProfileAI_fallback
  \/ \E ans \in FetchAnswers : analyzeProfileAI_fetched(ans)

SpecProfile == FInit /\ [][FNext]_vars

\* C27: with AI_PROVIDER = deepseek and DEEPSEEK_API_URL or DEEPSEEK_API_KEY
\* missing, analyzeProfileAI makes one fallback call, which returns the mock
\* analysis: the calls never nest deeper than one and the call is not rejected.
C27_OneFallbackStep ==
  (prof.pc # "idle" /\ ModeOf(prof.env) = deepseek /\ (~prof.url \/ ~prof.key))
  => /\ prof.depth <= 1
     /\ prof.pc # "rejected"
     /\ prof.requests = 0
     /\ prof.pc = "settled" => (prof.depth = 1 /\ prof.provider = "mock")

\* C28: with AI_PROVIDER unset or naming anything other than deepseek,
\* analyzeProfileAI issues no request to a provider and returns a result
\* with provider "mock" and a score from 1 to 10.
C28_MockIssuesNoRequest ==
  (prof.pc # "idle" /\ (prof.env = <<>> \/ ToLowerCase(prof.env) # deepseek))
  => /\ prof.requests = 0
     /\ prof.depth = 0
     /\ prof.pc = "settled"
     /\ prof.provider = "mock"
     /\ prof.score \in 1..10

C28_Witness ==
  /\ prof.pc = "settled" /\ prof.env = <<"o", "p", "e", "n", "a", "i">>
  /\ prof.profile = ProfileFull
  /\ prof.provider = "mock" /\ prof.score = 10 /\ prof.requests = 0

\* validateApiKey has finished with the request
GateDecided == gate.pc \in {"passed", "logged", "done"}

\* the lookup in api_keys of a key that has an active row failed: the client
\* returned an error, or the call raised
LookupFailed ==
  gate.pc # "idle" /\ gate.key = "active" /\ gate.outcome \in {"error", "raise"}

\* C36: validateApiKey either calls next() and sends nothing, or sends one
\* error response (401, 429 or 500) and does not call next(); when the lookup
\* in the credential store fails the answer is 500 and the request is not
\* let through.
C36_NextOrOneError ==
  /\ (GateDecided /\ gate.nextCalled) => gate.status \in {0, 200}
  /\ (GateDecided /\ ~gate.nextCalled) => gate.status \in {401, 429, 500}
  /\ (GateDecided /\ LookupFailed) => (gate.status = 500 /\ ~gate.nextCalled)

\* ==================================================== the parse of content
\* The content of the provider's message as a sequence of tokens: an opening
\* brace, a closing brace, a member name with its colon, and prose that holds
\* no brace.
ContentTokens == {"{", "}", "key", "txt"}

MaxContentLen == 5

ProviderContents == UNION {[1..n -> ContentTokens] : n \in 1..MaxContentLen}

RECURSIVE IsJsonObject(_)
\* JSON.parse(s) succeeds: s is {} or {"key": <object>}
IsJsonObject(s) ==
  /\ Len(s) >= 2
  /\ s[1] = "{"
  /\ s[Len(s)] = "}"
  /\ \/ Len(s) = 2
     \/ s[2] = "key" /\ IsJsonObject(SubSeq(s, 3, Len(s) - 1))

\* the positions of a token in s
PositionsOf(s, tok) == {i \in 1..Len(s) : s[i] = tok}

SetMin(S) == CHOOSE x \in S : \A y \in S : x <= y
SetMax(S) == CHOOSE x \in S : \A y \in S : x >= y

\* content.match(/\{[\s\S]*\}/): the leftmost "{" that has a "}" after it,
\* and from there as far as the last "}" of the content; <<>> is no match
GreedyMatch(s) ==
  LET opens  == PositionsOf(s, "{")
      closes == {j \in PositionsOf(s, "}") : opens # {} /\ j > SetMin(opens)}
  IN  IF closes = {} THEN <<>> ELSE SubSeq(s, SetMin(opens), SetMax(closes))

RECURSIVE BalancedEnd(_, _, _)
\* the position of the brace that closes the block open at depth d, from i on
BalancedEnd(s, i, d) ==
  IF i > Len(s) THEN 0
  ELSE IF s[i] = "{" THEN BalancedEnd(s, i + 1, d + 1)
  ELSE IF s[i] = "}" THEN IF d = 1 THEN i ELSE BalancedEnd(s, i + 1, d - 1)
  ELSE BalancedEnd(s, i + 1, d)

\* the first balanced {...} block of s; <<>> when there is none
FirstBalanced(s) ==
  LET opens == PositionsOf(s, "{")
      e     == IF opens = {} THEN 0 ELSE BalancedEnd(s, SetMin(opens) + 1, 1)
  IN  IF e = 0 THEN <<>> ELSE SubSeq(s, SetMin(opens), e)

ParseImpls == {"corrected", "nodeFetch", "strict"}

ParsedValue(v) == [st |-> "value", v |-> v]
ParseFailure   == [st |-> "failure", v |-> <<>>]

\* try { return JSON.parse(content) } catch { match, JSON.parse(match[0]) }:
\* a throw of the inner JSON.parse leaves the function's try, which ends in
\* the local analysis ("corrected", "nodeFetch") or leaves the function
\* ("strict"); without a match "strict" returns {}
parseContent_result(d, content) ==
  LET m == GreedyMatch(content)
  IN  IF IsJsonObject(content) THEN ParsedValue(content)
      ELSE IF m = <<>>
      THEN IF d = "strict" THEN ParsedValue(<<"{", "}">>) ELSE ParseFailure
      ELSE IF IsJsonObject(m) THEN ParsedValue(m)
      ELSE ParseFailure

parseContent(d, content) ==
  /\ parsed.pc = "idle"
  /\ parsed' = [pc |-> "done", impl |-> d, content |-> content,
                res |-> parseContent_result(d, content)]
  /\ UNCHANGED <<qvars, avars, tvars, pub, gate, prof, limiter, batch>>

JInit ==
  /\ QIdle
  /\ aImpl = "none"
  /\ dImpl = "none"
  /\ apiKeyLen = 0
  /\ call = NoCall
  /\ remote = RemoteIdle
  /\ norm = [applied |-> 0]

JNext == \E d \in ParseImpls, content \in ProviderContents : parseContent(d, content)

SpecParse == JInit /\ [][JNext]_vars

\* the content does not parse as it is, and its first balanced {...} block does
LenientCase(content) ==
  /\ ~IsJsonObject(content)
  /\ FirstBalanced(content) # <<>>
  /\ IsJsonObject(FirstBalanced(content))

\* C31: when the strict parse of the content fails, the lenient parse gives
\* the first balanced {...} block of the content; a content that holds a valid
\* JSON object followed by more text with braces still gives that first object
\* and is not a remote failure.
C31_LenientTakesFirstBalanced ==
  (parsed.pc = "done" /\ LenientCase(parsed.content))
  => parsed.res = ParsedValue(FirstBalanced(parsed.content))

\* =========================================================== the rate limit
\* rateLimit({windowMs, max, keyFn}): one Map of hits per limiter, keyed by
\* keyFn(req) = `${req.ip}:${req.path}`. Time is in ticks; the window of
\* 60_000 ms and the max of 15, 30 or 60 are scaled down.
windowMs == 2
RateMax == 2
MaxRequests == 5
MaxRateClock == 5

RateKeys == {"ip1:/analyze/cv-text", "ip2:/analyze/cv-text"}

\* entry.count > max, one request late
RateExceeded_late(count, max) == count > max + 1

\* if (entry.count > max) return res.status(429)
RateExceeded(count, max) == count > max

\* !entry || now > entry.resetAt
WindowOver(hits, key, t) == ~MapHas(hits, key) \/ t > hits[key].resetAt

\* the limiter's answer to one request: the entry it leaves in the Map, and
\* next() or the 429 response
rateLimit_entry(hits, key, t) ==
  IF WindowOver(hits, key, t)
  THEN [count |-> 1, resetAt |-> t + windowMs]
  ELSE [hits[key] EXCEPT !.count = @ + 1]

rateLimit_status(hits, key, t, max) ==
  IF WindowOver(hits, key, t) THEN "next"
  ELSE IF RateExceeded(hits[key].count + 1, max) THEN "429"
  ELSE "next"

\* one request goes through the middleware
rateLimit(key) ==
  /\ limiter.pc = "on"
  /\ Len(limiter.log) < MaxRequests
  /\ LET entry == rateLimit_entry(limiter.hits, key, limiter.now)
     IN  limiter' = [limiter EXCEPT
           !.hits = MapSet(@, key, entry),
           !.log = Append(@, [key |-> key, at |-> limiter.now,
                              status |-> rateLimit_status(limiter.hits, key,
                                                          limiter.now, limiter.max),
                              count |-> entry.count, resetAt |-> entry.resetAt])]
  /\ UNCHANGED <<qvars, avars, tvars, pub, gate, prof, parsed, batch>>

\* Date.now() moves on between requests
rateLimit_tick ==
  /\ limiter.pc = "on"
  /\ limiter.now < MaxRateClock
  /\ limiter' = [limiter EXCEPT !.now = @ + 1]
  /\ UNCHANGED <<qvars, avars, tvars, pub, gate, prof, parsed, batch>>

\* rateLimit({ windowMs, max }): a limiter with an empty Map
rateLimit_create(max) ==
  /\ limiter.pc = "idle"
  /\ limiter' = [pc |-> "on", max |-> max, hits |-> EmptyMap, now |-> 0, log |-> <<>>]
  /\ UNCHANGED <<qvars, avars, tvars, pub, gate, prof, parsed, batch>>

LInit ==
  /\ QIdle
  /\ aImpl = "none"
  /\ dImpl = "none"
  /\ apiKeyLen = 0
  /\ call = NoCall
  /\ remote = RemoteIdle
  /\ norm = [applied |-> 0]

LNext ==
  \/ \E max \in 1..RateMax : rateLimit_create(max)
  \/ \E key \in RateKeys : rateLimit(key)
  \/ rateLimit_tick

SpecLimit == LInit /\ [][LNext]_vars

\* the requests of key k answered before the i-th that fall in its window
InWindowBefore(log, i) ==
  {j \in 1..i : log[j].key = log[i].key /\ log[j].resetAt = log[i].resetAt}

\* the request of the same key that came last before the i-th; 0: none
PreviousOf(log, i) ==
  LET before == {j \in 1..(i - 1) : log[j].key = log[i].key}
  IN  IF before = {} THEN 0 ELSE SetMax(before)

\* C35: per key, a window passes at most max requests to the next handler and
\* answers every further one 429; a request does not move the reset time of
\* the window it falls in, and the first request after the reset time starts
\* a new window with count 1.
C35_RateWindow ==
  limiter.pc = "on"
  => \A i \in DOMAIN limiter.log :
       LET log  == limiter.log
           prev == PreviousOf(log, i)
           new  == prev = 0 \/ log[i].at > log[prev].resetAt
       IN  /\ log[i].status = "next" <=> Cardinality(InWindowBefore(log, i)) <= limiter.max
           /\ Cardinality({j \in InWindowBefore(log, i) : log[j].status = "next"})
                <= limiter.max
           /\ new => log[i].count = 1 /\ log[i].resetAt = log[i].at + windowMs
           /\ ~new => log[i].resetAt = log[prev].resetAt

\* a window that passed max requests, rejected one, and was followed by a
\* new window
C35_Witness ==
  /\ limiter.pc = "on"
  /\ limiter.max = RateMax
  /\ \E i, j \in DOMAIN limiter.log :
       /\ i < j
       /\ limiter.log[i].key = limiter.log[j].key
       /\ limiter.log[i].status = "429"
       /\ limiter.log[i].count = RateMax + 1
       /\ limiter.log[j].status = "next"
       /\ limiter.log[j].count = 1

\* ======================================================= batch processing
\* POST /v1/batch/analyze of api-server.js and processBatchAsync. A batch is
\* the list of its profile ids; analyzeCandidateWithAI resolves or rejects for
\* each profile; the update of batch_processing resolves (with or without an
\* error in its result) or raises; the fetch of sendCallback resolves or
\* rejects.
MaxBatch == 3

Batches == {[k \in 1..n |-> k] : n \in 0..MaxBatch}

BatchIdle ==
  [pc |-> "idle", profiles |-> <<>>, callback_url |-> FALSE, status |-> 0,
   index |-> 0, results |-> <<>>, errors |-> <<>>, stored |-> "none",
   callbacks |-> 0, events |-> <<>>]

\* the for loop moves to the next profile, or the loop is over and the update
\* of batch_processing is awaited
NextProfile(b) ==
  IF b.index < Len(b.profiles)
  THEN [b EXCEPT !.index = @ + 1, !.events = Append(@, "analyze")]
  ELSE [b EXCEPT !.pc = "updating"]

\* a failure ends the loop
AfterProfile_stopOnError(b, ok) ==
  IF ok THEN NextProfile([b EXCEPT !.results = Append(@, b.index)])
  ELSE [b EXCEPT !.errors = Append(@, b.index), !.pc = "updating"]

\* try { results.push(...) } catch { errors.push(...) }, then the loop goes on
AfterProfile(b, ok) ==
  IF ok THEN NextProfile([b EXCEPT !.results = Append(@, b.index)])
  ELSE NextProfile([b EXCEPT !.errors = Append(@, b.index)])

\* the handler: 400 for an empty list; otherwise 202 is sent and then
\* processBatchAsync runs up to its first await
batch_analyze(profiles, callback_url) ==
  /\ batch.pc \in {"idle", "done", "completed", "rejected"}
  /\ LET b == [BatchIdle EXCEPT !.profiles = profiles, !.callback_url = callback_url]
     IN  batch' = IF Len(profiles) = 0
                  THEN [b EXCEPT !.pc = "done", !.status = 400]
                  ELSE NextProfile([b EXCEPT !.pc = "analyzing", !.status = 202,
                                             !.events = <<"202">>])
  /\ UNCHANGED <<qvars, avars, tvars, pub, gate, prof, parsed, limiter>>

\* await analyzeCandidateWithAI(profile) settles
processBatchAsync_analyzed(ok) ==
  /\ batch.pc = "analyzing"
  /\ batch' = AfterProfile(batch, ok)
  /\ UNCHANGED <<qvars, avars, tvars, pub, gate, prof, parsed, limiter>>

\* await supabase.from('batch_processing').update(...) settles: when it
\* raises, processBatchAsync rejects; otherwise the callback is sent if a URL
\* was given
processBatchAsync_updated(outcome) ==
  /\ batch.pc = "updating"
  /\ batch' = IF outcome = "raise"
              THEN [batch EXCEPT !.pc = "rejected", !.stored = outcome]
              ELSE IF batch.callback_url
              THEN [batch EXCEPT !.pc = "callback", !.stored = outcome,
                                 !.callbacks = @ + 1,
                                 !.events = Append(@, "callback")]
              ELSE [batch EXCEPT !.pc = "completed", !.stored = outcome]
  /\ UNCHANGED <<qvars, avars, tvars, pub, gate, prof, parsed, limiter>>

\* the fetch of sendCallback settles; a rejection is caught and logged
sendCallback_settled ==
  /\ batch.pc = "callback"
  /\ batch' = [batch EXCEPT !.pc = "completed"]
  /\ UNCHANGED <<qvars, avars, tvars, pub, gate, prof, parsed, limiter>>

BInit ==
  /\ QIdle
  /\ aImpl = "none"
  /\ dImpl = "none"
  /\ apiKeyLen = 0
  /\ call = NoCall
  /\ remote = RemoteIdle
  /\ norm = [applied |-> 0]

BNext ==
  \/ \E profiles \in Batches, callback_url \in BOOLEAN :
       batch_analyze(profiles, callback_url)
  \/ \E ok \in BOOLEAN : processBatchAsync_analyzed(ok)
  \/ \E outcome \in StoreOutcomes : processBatchAsync_updated(outcome)
  \/ sendCallback_settled

SpecBatch == BInit /\ [][BNext]_vars

\* the elements of a sequence
Range(q) == {q[k] : k \in DOMAIN q}

\* C39: a non-empty batch is answered 202 before any profile is analyzed;
\* every profile handled so far is in exactly one of results and errors, and
\* once the loop is over every profile of the batch is; the callback is sent
\* at most once, after the last profile, and only when a callback URL was
\* given; an empty batch is answered 400 and nothing is processed.
C39_BatchAccounting ==
  batch.pc # "idle"
  => /\ Len(batch.profiles) = 0
          => (batch.status = 400 /\ batch.pc = "done" /\ batch.events = <<>>
              /\ batch.results = <<>> /\ batch.errors = <<>> /\ batch.callbacks = 0)
     /\ Len(batch.profiles) > 0
          => (batch.status = 202 /\ batch.events[1] = "202")
     /\ Range(batch.results) \cap Range(batch.errors) = {}
     /\ Len(batch.results) + Len(batch.errors) = Cardinality(Range(batch.results) \cup Range(batch.errors))
     /\ batch.pc = "analyzing"
          => Range(batch.results) \cup Range(batch.errors) = 1..(batch.index - 1)
     /\ batch.pc \in {"updating", "callback", "completed", "rejected"}
          => /\ Range(batch.results) \cup Range(batch.errors) = DOMAIN batch.profiles
             /\ Len(batch.results) + Len(batch.errors) = Len(batch.profiles)
     /\ batch.callbacks <= 1
     /\ batch.callbacks = 1
          => /\ batch.callback_url
             /\ batch.pc \in {"callback", "completed"}
             /\ batch.events[Len(batch.events)] = "callback"

\* a batch of three with a failure in the middle was completed and its
\* callback sent
C39_Witness ==
  /\ batch.pc = "completed"
  /\ Len(batch.profiles) = 3
  /\ batch.results = <<1, 3>>
  /\ batch.errors = <<2>>
  /\ batch.callbacks = 1
====
